---- MODULE Spec2Model ----
(***************************************************************************)
(* A model of the chore lifecycle of chore_dispatcher: the Chore entity,   *)
(* the StateTransitionEngine, the IntegrityValidator, the ArchivalManager, *)
(* the ChoreLifecycleManager and the ChoreRepository, with the two JSONL   *)
(* stores (active and completed) as sequences of records; the Snowflake    *)
(* id generator with its callers and its clock; and the session            *)
(* resolution of the TMUXWindowManager against a tmux server.              *)
(***************************************************************************)
EXTENDS Integers, Sequences, FiniteSets, TLC

\* ------------------------------------------------------------------ bounds

\* Number of chores one run holds (ids 1..MaxChores).
MaxChores == 2

\* Number of operations of one run.
MaxOps == 2

\* ------------------------------------------------------------- vocabulary

\* Python's None for text fields and return values; NoId is None for id fields.
None == "None"
NoId == 0

\* The field values the callers of one run pass in.
Names == {"n1"}
Descriptions == {"d1"}
NewNames == {"n2"}
NewDescriptions == {"d2"}
ProgressTexts == {"p1"}
ReviewTexts == {"r1"}

\* Outcome of the dispatcher action a hook triggers.
HookOutcomes == {"ok", "raises"}

\* list(ChoreStatus): the enum in declaration order.
ChoreStatus ==
    << "design", "design_review", "design_ready",
       "plan", "plan_review", "plan_ready",
       "work", "work_review", "work_done" >>

Statuses == { ChoreStatus[i] : i \in 1..Len(ChoreStatus) }

WORK_DONE == "work_done"

\* statuses.index(status)
StatusIndex(s) == CHOOSE i \in 1..Len(ChoreStatus) : ChoreStatus[i] = s

\* ------------------------------------------------- StateTransitionEngine

VALID_TRANSITIONS ==
    [ s \in Statuses |->
        CASE s = "design"        -> {"design_review"}
          [] s = "design_review" -> {"design_ready"}
          [] s = "design_ready"  -> {"plan"}
          [] s = "plan"          -> {"plan_review"}
          [] s = "plan_review"   -> {"plan_ready"}
          [] s = "plan_ready"    -> {"work"}
          [] s = "work"          -> {"work_review"}
          [] s = "work_review"   -> {"work_done"}
          [] s = "work_done"     -> {} ]

\* A table that lets a chore skip ahead: any later status is allowed.
validate_transition_forward(current_status, new_status) ==
    \E i, j \in 1..Len(ChoreStatus) :
        /\ ChoreStatus[i] = current_status
        /\ ChoreStatus[j] = new_status
        /\ i < j

validate_transition(current_status, new_status) ==
    IF current_status \notin DOMAIN VALID_TRANSITIONS
    THEN FALSE
    ELSE new_status \in VALID_TRANSITIONS[current_status]

\* ----------------------------------------------------------------- state

VARIABLES
    obj,      \* the Chore objects of the process, by id
    chores,   \* the keys of ChoreRepository._chores
    active,   \* the active store file: a sequence of records
    archive,  \* the completed store file: a sequence of records
    nextId,   \* the next id the generator issues
    hook,     \* what the dispatcher does when a hook calls it in this run
    lastOp,   \* the last operation: its arguments and what it returned
    ops,      \* number of operations so far
    advances, \* by chore id, the advance_status() calls that returned True
    clock,    \* what time.time() * 1000 is, in ms since EPOCH_MS
    generator,\* the Snowflake object: last_ts, sequence, and who holds its lock
    callers,  \* by thread, where it is in next_id and what it got
    issued,   \* the ids next_id returned, in the order of their return
    sessions, \* the names of the sessions of the tmux server
    ambient,  \* the session the process runs in (NoSession outside tmux)
    commands, \* the new-session commands sent to tmux so far
    windows   \* by session of the tmux server, its windows in index order

\* The variables of the Snowflake generator and of tmux.
snowVars == << clock, generator, callers, issued >>
tmuxVars == << sessions, ambient, commands, windows >>

vars == << obj, chores, active, archive, nextId, hook, lastOp, ops, advances,
           snowVars, tmuxVars >>

\* A run that calls neither the generator nor tmux.
SnowflakeUnused ==
    /\ clock = 0
    /\ generator = << >>
    /\ callers = << >>
    /\ issued = << >>

TmuxUnused ==
    /\ sessions = {}
    /\ ambient = << >>
    /\ commands = << >>
    /\ windows = << >>

\* The part of the state the operations work on.
World == [ obj |-> obj, chores |-> chores, active |-> active, archive |-> archive ]

\* ----------------------------------------------------------------- Chore

\* Chore.__init__
NewChore(id, name, description, parent_chore_id) ==
    [ id |-> id, name |-> name, description |-> description,
      status |-> ChoreStatus[1], next_chore |-> NoId,
      progress_info |-> None, review_info |-> None,
      parent_chore_id |-> parent_chore_id, sub_chores |-> << >> ]

is_complete(o) == o.status = WORK_DONE

is_parent(o) == Len(o.sub_chores) > 0

is_sub_chore(o) == o.parent_chore_id # NoId

\* Chore.can_advance: the sub-chores are objects, looked up on the heap.
can_advance(objs, o) ==
    IF ~is_parent(o)
    THEN TRUE
    ELSE \A i \in 1..Len(o.sub_chores) : is_complete(objs[o.sub_chores[i]])

\* A chore that skips a status whenever two statuses are left.
advance_status_skips(objs, o) ==
    IF ~can_advance(objs, o)
    THEN [ o |-> o, ret |-> FALSE ]
    ELSE LET current_index == StatusIndex(o.status)
         IN  IF current_index + 1 < Len(ChoreStatus)
             THEN [ o |-> [o EXCEPT !.status = ChoreStatus[current_index + 2]],
                    ret |-> TRUE ]
             ELSE IF current_index < Len(ChoreStatus)
             THEN [ o |-> [o EXCEPT !.status = ChoreStatus[current_index + 1]],
                    ret |-> TRUE ]
             ELSE [ o |-> o, ret |-> FALSE ]

\* Chore.advance_status: the object after the call and the value returned.
advance_status(objs, o) ==
    IF ~can_advance(objs, o)
    THEN [ o |-> o, ret |-> FALSE ]
    ELSE LET current_index == StatusIndex(o.status)
         IN  IF current_index < Len(ChoreStatus)
             THEN [ o |-> [o EXCEPT !.status = ChoreStatus[current_index + 1]],
                    ret |-> TRUE ]
             ELSE [ o |-> o, ret |-> FALSE ]

\* A get_next_chore that does not look at the status.
get_next_chore_whatever_status(o) == o.next_chore

\* Chore.get_next_chore
get_next_chore(o) == IF is_complete(o) THEN o.next_chore ELSE NoId

\* ------------------------------------------------------------ the stores

\* dict.get(key, default) on a stored record.
DictGet(d, key, default) == IF key \in DOMAIN d THEN d[key] ELSE default

\* ArchivalManager._chore_to_dict: the record save_active_chores and
\* archive_completed_chore write.
ChoreToDict(o) ==
    [ id |-> o.id, name |-> o.name, description |-> o.description,
      status |-> o.status, next_chore_id |-> o.next_chore,
      progress_info |-> o.progress_info, review_info |-> o.review_info ]

\* The ids of a dict in iteration order. _chores is filled in creation order
\* or in file order, and ids grow, so iteration order is ascending id.
RECURSIVE DictOrder(_)
DictOrder(S) ==
    IF S = {} THEN << >>
    ELSE LET m == CHOOSE x \in S : \A y \in S : x <= y
         IN  << m >> \o DictOrder(S \ {m})

\* A save_active_chores that opens the active file to append to it.
SaveActiveChoresAppends(w) ==
    LET order == DictOrder(w.chores)
    IN  [ w EXCEPT !.active = @ \o [ i \in 1..Len(order) |-> ChoreToDict(w.obj[order[i]]) ] ]

\* ArchivalManager.save_active_chores: rewrite the whole active file.
SaveActiveChores(w) ==
    LET order == DictOrder(w.chores)
    IN  [ w EXCEPT !.active = [ i \in 1..Len(order) |-> ChoreToDict(w.obj[order[i]]) ] ]

\* An archive_completed_chore that opens the completed file to write it anew.
ArchiveCompletedChoreRewrites(w, id) ==
    IF w.obj[id].status # WORK_DONE
    THEN [ w |-> w, exc |-> "ValidationError" ]
    ELSE [ w |-> [ w EXCEPT !.archive = << ChoreToDict(w.obj[id]) >> ],
           exc |-> "none" ]

\* An archive_completed_chore that does not look at the status.
ArchiveCompletedChoreAnyStatus(w, id) ==
    [ w |-> [ w EXCEPT !.archive = Append(@, ChoreToDict(w.obj[id])) ],
      exc |-> "none" ]

\* ArchivalManager.archive_completed_chore
ArchiveCompletedChore(w, id) ==
    IF w.obj[id].status # WORK_DONE
    THEN [ w |-> w, exc |-> "ValidationError" ]
    ELSE [ w |-> [ w EXCEPT !.archive = Append(@, ChoreToDict(w.obj[id])) ],
           exc |-> "none" ]

\* ArchivalManager.remove_from_active
RemoveFromActive(w, id) ==
    IF id \in w.chores THEN [ w EXCEPT !.chores = @ \ {id} ] ELSE w

FileIds(file) == { file[i].id : i \in 1..Len(file) }

\* A validate_chore_locations that does not look at the statuses of the
\* completed file and counts lines.
ValidateChoreLocationsOfLines(act, arc) ==
    LET dual_location == FileIds(act) \cap FileIds(arc)
        issues ==
            { << "completed_in_active", act[i].id >> :
                  i \in { j \in 1..Len(act) : act[j].status = "work_done" } }
            \cup
            { << "dual_location", id >> : id \in dual_location }
    IN  [ active_count |-> Len(act),
          completed_count |-> Len(arc),
          dual_location_count |-> Cardinality(dual_location),
          issues |-> issues,
          valid |-> issues = {} ]

\* IntegrityValidator.validate_chore_locations
ValidateChoreLocations(act, arc) ==
    LET active_ids == FileIds(act)
        completed_ids == FileIds(arc)
        dual_location == active_ids \cap completed_ids
        issues ==
            { << "completed_in_active", act[i].id >> :
                  i \in { j \in 1..Len(act) : act[j].status = "work_done" } }
            \cup
            { << "non_completed_in_completed", arc[i].id >> :
                  i \in { j \in 1..Len(arc) : arc[j].status # "work_done" } }
            \cup
            { << "dual_location", id >> : id \in dual_location }
    IN  [ active_count |-> Cardinality(active_ids),
          completed_count |-> Cardinality(completed_ids),
          dual_location_count |-> Cardinality(dual_location),
          issues |-> issues,
          valid |-> issues = {} ]

\* ------------------------------------------------- ChoreLifecycleManager

SetField(w, id, field, value) ==
    [ w EXCEPT !.obj = [ @ EXCEPT ![id] = [ @ EXCEPT ![field] = value ] ] ]

\* An execute_transition that assigns the status before it validates.
ExecuteTransitionAssignsFirst(w, id, new_status) ==
    IF ~validate_transition(w.obj[id].status, new_status)
    THEN [ w |-> SetField(w, id, "status", new_status), exc |-> "TransitionError" ]
    ELSE [ w |-> SetField(w, id, "status", new_status), exc |-> "none" ]

\* StateTransitionEngine.execute_transition: raises before it assigns.
ExecuteTransition(w, id, new_status) ==
    IF ~validate_transition(w.obj[id].status, new_status)
    THEN [ w |-> w, exc |-> "TransitionError" ]
    ELSE [ w |-> SetField(w, id, "status", new_status), exc |-> "none" ]

\* A _handle_completion that archives but leaves the chore in the active set.
HandleCompletionKeepsActive(w, id) ==
    LET a == ArchiveCompletedChore(w, id)
    IN  IF a.exc # "none"
        THEN a
        ELSE [ w |-> SaveActiveChores(a.w), exc |-> "none" ]

\* ChoreLifecycleManager._handle_completion: archive, remove, save.
HandleCompletion(w, id) ==
    LET a == ArchiveCompletedChore(w, id)
    IN  IF a.exc # "none"
        THEN a
        ELSE [ w |-> SaveActiveChores(RemoveFromActive(a.w, id)), exc |-> "none" ]

\* A transition_chore_state whose transaction() does not validate the stores.
TransitionChoreStateUnvalidated(w, id, new_status, progress_info, review_info) ==
    LET t == ExecuteTransition(w, id, new_status)
    IN  IF t.exc # "none"
        THEN [ w |-> t.w, exc |-> t.exc, ret |-> None, message |-> None ]
        ELSE LET w1 == IF progress_info # None
                       THEN SetField(t.w, id, "progress_info", progress_info)
                       ELSE t.w
                 w2 == IF review_info # None
                       THEN SetField(w1, id, "review_info", review_info)
                       ELSE w1
                 c  == IF new_status = WORK_DONE
                       THEN HandleCompletion(w2, id)
                       ELSE [ w |-> SaveActiveChores(w2), exc |-> "none" ]
             IN  IF c.exc # "none"
                 THEN [ w |-> c.w, exc |-> c.exc, ret |-> None, message |-> None ]
                 ELSE [ w |-> c.w, exc |-> "none", ret |-> "True", message |-> None ]

\* ChoreLifecycleManager.transition_chore_state inside transaction(): the
\* body, then the integrity validation the context manager runs when the
\* body ends without an exception. ret is the bool the method returns,
\* message the issues the ValidationError of transaction() is made with.
TransitionChoreState(w, id, new_status, progress_info, review_info) ==
    LET t == ExecuteTransition(w, id, new_status)
    IN  IF t.exc # "none"
        THEN [ w |-> t.w, exc |-> t.exc, ret |-> None, message |-> None ]
        ELSE LET w1 == IF progress_info # None
                       THEN SetField(t.w, id, "progress_info", progress_info)
                       ELSE t.w
                 w2 == IF review_info # None
                       THEN SetField(w1, id, "review_info", review_info)
                       ELSE w1
                 c  == IF new_status = WORK_DONE
                       THEN HandleCompletion(w2, id)
                       ELSE [ w |-> SaveActiveChores(w2), exc |-> "none" ]
                 validation == ValidateChoreLocations(c.w.active, c.w.archive)
             IN  IF c.exc # "none"
                 THEN [ w |-> c.w, exc |-> c.exc, ret |-> None, message |-> None ]
                 ELSE IF ~validation.valid
                 THEN [ w |-> c.w, exc |-> "ValidationError", ret |-> None,
                        message |-> validation.issues ]
                 ELSE [ w |-> c.w, exc |-> "none", ret |-> "True", message |-> None ]

\* -------------------------------------------------------- DispatcherHooks

\* What leaves DispatcherHooks.on_chore_state_change when the dispatcher
\* action ends as h: the method catches every exception itself.
OnChoreStateChange(h) == "none"

\* What leaves on_chore_created / on_chore_deleted: they catch nothing.
OnChoreCreated(h) == IF h = "raises" THEN "Exception" ELSE "none"

OnChoreDeleted(h) == IF h = "raises" THEN "Exception" ELSE "none"

\* A hook call with no try/except around it: the exception goes on.
TryHookUncaught(exc) == exc

\* The try/except the repository puts around each hook call: the exception
\* is printed and the operation goes on. What reaches the operation's body.
TryHook(exc) == "none"

\* ------------------------------------------------------- ChoreRepository

\* A _save_to_file that leaves the active file as it is.
SaveToFileSkipped(w) == w

\* ChoreRepository._save_to_file
SaveToFile(w) == SaveActiveChores(w)

\* What an operation hands back: the world, the value returned, the exception
\* that reaches the caller, the hook events fired, and for update the outcome
\* of the lifecycle manager and the exception update caught.
OpResult(w, ret, raised, events, lm, caught) ==
    [ w |-> w, ret |-> ret, raised |-> raised, events |-> events,
      lm |-> lm, caught |-> caught ]

\* ChoreRepository.create
RepoCreate(w, id, name, description, h) ==
    LET w1 == [ w EXCEPT !.obj = (id :> NewChore(id, name, description, NoId)) @@ @,
                         !.chores = @ \cup {id} ]
        w2 == SaveToFile(w1)
        e  == TryHook(OnChoreCreated(h))
    IN  IF e # "none"
        THEN OpResult(w2, None, e, << << "created", id >> >>, "not_called", "none")
        ELSE OpResult(w2, "chore", "none", << << "created", id >> >>, "not_called", "none")

\* ChoreRepository.create_sub_chore
RepoCreateSubChore(w, id, parent_id, name, description, h) ==
    IF parent_id \notin w.chores
    THEN OpResult(w, None, "none", << >>, "not_called", "none")
    ELSE LET sub == NewChore(id, name, description, parent_id)
             w1 == [ w EXCEPT !.obj = (id :> sub) @@
                                   [ @ EXCEPT ![parent_id].sub_chores = Append(@, id) ],
                              !.chores = @ \cup {id} ]
             w2 == SaveToFile(w1)
             e  == TryHook(OnChoreCreated(h))
         IN  IF e # "none"
             THEN OpResult(w2, None, e, << << "created", id >> >>, "not_called", "none")
             ELSE OpResult(w2, "chore", "none", << << "created", id >> >>, "not_called", "none")

\* A Python bool has no attribute get: result.get(...) on the value
\* transition_chore_state returns raises AttributeError.
HasGet(result) == result \notin {"True", "False"}

\* An except branch of update that saves and leaves the status alone.
UpdateFallbackKeepsStatus(w, id, status, lm, caught) ==
    OpResult(SaveToFile(w), "chore", "none", << >>, lm, caught)

\* The except branch of update: "Fallback to old behavior".
UpdateFallback(w, id, status, lm, caught) ==
    OpResult(SaveToFile(SetField(w, id, "status", status)),
             "chore", "none", << >>, lm, caught)

\* ChoreRepository.update
RepoUpdate(w, id, name, description, status, progress_info, review_info, h) ==
    IF id \notin w.chores
    THEN OpResult(w, None, "none", << >>, "not_called", "none")
    ELSE
    LET old_status == w.obj[id].status
        w1 == IF name # None THEN SetField(w, id, "name", name) ELSE w
        w2 == IF description # None THEN SetField(w1, id, "description", description) ELSE w1
        w3 == IF progress_info # None THEN SetField(w2, id, "progress_info", progress_info) ELSE w2
        w4 == IF review_info # None THEN SetField(w3, id, "review_info", review_info) ELSE w3
    IN  IF status # None /\ status # old_status
        THEN LET t == TransitionChoreState(w4, id, status, progress_info, review_info)
             IN  IF t.exc # "none"
                 THEN UpdateFallback(t.w, id, status, t.exc, t.exc)
                 ELSE IF ~HasGet(t.ret)
                 THEN UpdateFallback(t.w, id, status, "ok", "AttributeError")
                 ELSE LET e == TryHook(OnChoreStateChange(h))
                          ev == << << "state_change", id, old_status, status >> >>
                      IN  IF e # "none"
                          THEN UpdateFallback(t.w, id, status, "ok", e)
                          ELSE IF status = WORK_DONE
                          THEN OpResult(RemoveFromActive(t.w, id), None, "none", ev, "ok", "none")
                          ELSE OpResult(t.w, "chore", "none", ev, "ok", "none")
        ELSE OpResult(SaveToFile(w4), "chore", "none", << >>, "not_called", "none")

\* ChoreRepository.read
RepoRead(w, id) == IF id \in w.chores THEN id ELSE NoId

\* Python's list comprehension [sc for sc in sub_chores if sc.id != chore_id]
RECURSIVE Without(_, _)
Without(seq, id) ==
    IF seq = << >> THEN << >>
    ELSE IF Head(seq) = id THEN Without(Tail(seq), id)
    ELSE << Head(seq) >> \o Without(Tail(seq), id)

\* ChoreRepository.delete, and the loop over the copy of the sub-chore list.
RECURSIVE RepoDelete(_, _, _)
RECURSIVE DeleteEach(_, _, _, _)
DeleteEach(w, subs, h, events) ==
    IF subs = << >>
    THEN [ w |-> w, raised |-> "none", events |-> events ]
    ELSE LET d == RepoDelete(w, Head(subs), h)
         IN  IF d.raised # "none"
             THEN [ w |-> d.w, raised |-> d.raised, events |-> events \o d.events ]
             ELSE DeleteEach(d.w, Tail(subs), h, events \o d.events)

RepoDelete(w, id, h) ==
    IF id \notin w.chores
    THEN OpResult(w, "False", "none", << >>, "not_called", "none")
    ELSE
    LET chore == w.obj[id]
        s  == DeleteEach(w, chore.sub_chores, h, << >>)
        w1 == s.w
        parent_id == chore.parent_chore_id
        w2 == IF is_sub_chore(chore) /\ parent_id \in w1.chores
              THEN SetField(w1, parent_id, "sub_chores",
                            Without(w1.obj[parent_id].sub_chores, id))
              ELSE w1
        e  == TryHook(OnChoreDeleted(h))
        ev == s.events \o << << "deleted", id >> >>
    IN  IF s.raised # "none"
        THEN OpResult(w1, None, s.raised, s.events, "not_called", "none")
        ELSE IF e # "none"
        THEN OpResult(w2, None, e, ev, "not_called", "none")
        ELSE OpResult(SaveToFile([ w2 EXCEPT !.chores = @ \ {id} ]),
                      "True", "none", ev, "not_called", "none")

\* ChoreRepository._dict_to_chore
DictToChore(data) ==
    [ id |-> data.id, name |-> data.name, description |-> data.description,
      status |-> data.status, next_chore |-> NoId,
      progress_info |-> DictGet(data, "progress_info", None),
      review_info |-> DictGet(data, "review_info", None),
      parent_chore_id |-> DictGet(data, "parent_chore_id", NoId),
      sub_chores |-> << >> ]

\* The sequence of the ids in order that satisfy parent_chore_id = parent.
RECURSIVE ChildrenIn(_, _, _)
ChildrenIn(objs, order, parent) ==
    IF order = << >> THEN << >>
    ELSE IF objs[Head(order)].parent_chore_id = parent
    THEN << Head(order) >> \o ChildrenIn(objs, Tail(order), parent)
    ELSE ChildrenIn(objs, Tail(order), parent)

\* ChoreRepository._load_from_file with _link_chore_chains and
\* _link_parent_child_relationships: the objects and keys of a new repository.
LoadFromFile(file) ==
    LET ids == FileIds(file)
        \* a later line of the file replaces an earlier one with the same id
        rec(id) == file[CHOOSE i \in 1..Len(file) :
                          /\ file[i].id = id
                          /\ \A j \in (i + 1)..Len(file) : file[j].id # id]
        loaded == [ id \in ids |-> DictToChore(rec(id)) ]
        next_id(id) == DictGet(rec(id), "next_chore_id", NoId)
        chained == [ id \in ids |->
                       IF next_id(id) # NoId /\ next_id(id) \in ids
                       THEN [ loaded[id] EXCEPT !.next_chore = next_id(id) ]
                       ELSE loaded[id] ]
        order == DictOrder(ids)
        linked == [ id \in ids |->
                      [ chained[id] EXCEPT !.sub_chores = ChildrenIn(chained, order, id) ] ]
    IN  [ obj |-> linked, chores |-> ids ]

\* ------------------------------------------------------------ operations

Ids == 1..MaxChores

\* The status the file records for an id (None when it has no record of it).
StoredStatus(file, id) ==
    IF id \in FileIds(file)
    THEN file[CHOOSE i \in 1..Len(file) : file[i].id = id].status
    ELSE None

\* The record kept of an operation: its arguments, the operation before it,
\* the status (in memory and in the active file) and the can_advance() of the
\* chore before it, and what it handed back.
Op(name, id, id2, args, r) ==
    [ op |-> name, id |-> id, id2 |-> id2, args |-> args,
      prev_op |-> lastOp.op,
      old_status |-> IF id \in DOMAIN obj THEN obj[id].status ELSE None,
      old_stored |-> StoredStatus(active, id),
      could_advance |-> IF id \in DOMAIN obj THEN can_advance(obj, obj[id]) ELSE TRUE,
      known |-> id \in chores,
      ret |-> r.ret, raised |-> r.raised, events |-> r.events,
      lm |-> r.lm, caught |-> r.caught ]

Args(name, description, status, progress_info, review_info) ==
    [ name |-> name, description |-> description, status |-> status,
      progress_info |-> progress_info, review_info |-> review_info ]

NoArgs == Args(None, None, None, None, None)

\* The notes a caller passes with a status: none, or both.
NoteArgs ==
    { << None, None >> } \cup (ProgressTexts \X ReviewTexts)

\* The argument lists of update: a status (or none) with or without notes,
\* or a new name, or a new description.
UpdateArgs ==
    { Args(None, None, s, n[1], n[2]) : s \in {None} \cup Statuses, n \in NoteArgs }
    \cup { Args(x, None, None, None, None) : x \in NewNames }
    \cup { Args(None, x, None, None, None) : x \in NewDescriptions }

Plain(w, ret) == OpResult(w, ret, "none", << >>, "not_called", "none")

Commit(w) ==
    /\ obj' = w.obj
    /\ chores' = w.chores
    /\ active' = w.active
    /\ archive' = w.archive
    /\ ops' = ops + 1
    /\ hook' = hook
    /\ advances' = advances
    /\ UNCHANGED << snowVars, tmuxVars >>

\* The active store files a run starts on: empty, or one chore that an
\* earlier run left in a non-terminal status.
InitialFiles ==
    { << >> } \cup
    { << ChoreToDict([ NewChore(1, n, d, NoId) EXCEPT !.status = s ]) >> :
          n \in Names, d \in Descriptions, s \in Statuses \ {WORK_DONE} }

\* ChoreRepository.__init__ on a store file.
Init ==
    /\ \E file \in InitialFiles :
         /\ active = file
         /\ obj = LoadFromFile(file).obj
         /\ chores = LoadFromFile(file).chores
         /\ nextId = Len(file) + 1
    /\ archive = << >>
    /\ hook \in HookOutcomes
    /\ ops = 0
    /\ lastOp = [ op |-> "init", id |-> NoId, id2 |-> NoId, args |-> NoArgs,
                  prev_op |-> "init", old_status |-> None, old_stored |-> None,
                  could_advance |-> TRUE,
                  known |-> FALSE, ret |-> None, raised |-> "none",
                  events |-> << >>, lm |-> "not_called", caught |-> "none" ]
    /\ advances = << >>
    /\ SnowflakeUnused
    /\ TmuxUnused

\* repo.create(name, description)
Create ==
    /\ ops < MaxOps
    /\ nextId <= MaxChores
    /\ \E name \in Names, description \in Descriptions :
         LET r == RepoCreate(World, nextId, name, description, hook)
         IN  /\ Commit(r.w)
             /\ lastOp' = Op("create", nextId, NoId,
                             Args(name, description, None, None, None), r)
    /\ nextId' = nextId + 1

\* repo.create_sub_chore(parent_id, name, description)
CreateSubChore ==
    /\ ops < MaxOps
    /\ nextId <= MaxChores
    /\ \E parent_id \in Ids, name \in Names, description \in Descriptions :
         LET r == RepoCreateSubChore(World, nextId, parent_id, name, description, hook)
         IN  /\ Commit(r.w)
             /\ lastOp' = Op("create_sub_chore", nextId, parent_id,
                             Args(name, description, None, None, None), r)
             /\ nextId' = IF parent_id \in chores THEN nextId + 1 ELSE nextId

\* repo.update(chore_id, name, description, status, progress_info, review_info)
Update ==
    /\ ops < MaxOps
    /\ \E id \in Ids, a \in UpdateArgs :
         LET r == RepoUpdate(World, id, a.name, a.description, a.status,
                             a.progress_info, a.review_info, hook)
         IN  /\ Commit(r.w)
             /\ lastOp' = Op("update", id, NoId, a, r)
    /\ UNCHANGED nextId

\* repo.delete(chore_id)
Delete ==
    /\ ops < MaxOps
    /\ \E id \in Ids :
         LET r == RepoDelete(World, id, hook)
         IN  /\ Commit(r.w)
             /\ lastOp' = Op("delete", id, NoId, NoArgs, r)
    /\ UNCHANGED nextId

\* chore.advance_status() on a chore the caller got from the repository
AdvanceStatus ==
    /\ ops < MaxOps
    /\ \E id \in chores :
         LET a == advance_status(obj, obj[id])
             w == [ World EXCEPT !.obj = [ @ EXCEPT ![id] = a.o ] ]
         IN  /\ Commit(w)
             /\ lastOp' = Op("advance_status", id, NoId, NoArgs,
                             Plain(w, IF a.ret THEN "True" ELSE "False"))
    /\ UNCHANGED nextId

\* chore.set_next_chore(other) on two chores of the repository
SetNextChore ==
    /\ ops < MaxOps
    /\ \E id \in chores, other \in chores :
         LET w == SetField(World, id, "next_chore", other)
         IN  /\ Commit(w)
             /\ lastOp' = Op("set_next_chore", id, other, NoArgs, Plain(w, None))
    /\ UNCHANGED nextId

\* lifecycle_manager.transition_chore_state(chore, new_status, repo._chores, ...)
TransitionChore ==
    /\ ops < MaxOps
    /\ \E id \in chores, status \in Statuses, n \in NoteArgs :
         LET t == TransitionChoreState(World, id, status, n[1], n[2])
         IN  /\ Commit(t.w)
             /\ lastOp' = Op("transition_chore_state", id, NoId,
                             Args(None, None, status, n[1], n[2]),
                             OpResult(t.w, t.ret, t.exc, << >>,
                                      IF t.exc = "none" THEN "ok" ELSE t.exc, "none"))
    /\ UNCHANGED nextId

\* ChoreRepository(storage_file) constructed again on the same files
Reload ==
    /\ ops < MaxOps
    /\ LET l == LoadFromFile(active)
           w == [ World EXCEPT !.obj = l.obj, !.chores = l.chores ]
       IN  /\ Commit(w)
           /\ lastOp' = Op("reload", NoId, NoId, NoArgs, Plain(w, None))
    /\ UNCHANGED nextId

Next ==
    \/ Create
    \/ CreateSubChore
    \/ Update
    \/ Delete
    \/ AdvanceStatus
    \/ SetNextChore
    \/ TransitionChore
    \/ Reload

Spec == Init /\ [][Next]_vars

\* ---------------------------------------------------------------- claims

\* target is the status right after current in the order of the enum
IsImmediateSuccessor(current, target) ==
    StatusIndex(target) = StatusIndex(current) + 1

\* The last operation asked for a change of status of a chore it found.
AskedStatusChange ==
    /\ lastOp.op \in {"update", "transition_chore_state"}
    /\ lastOp.known
    /\ lastOp.args.status \notin {None, lastOp.old_status}

\* C1: for every pair (current, target) of the nine statuses,
\* validate_transition(current, target) is true iff target is the immediate
\* successor of current in the order design .. work_done: skips, reversals and
\* self-transitions are rejected and work_done has no allowed target; and
\* every call of the lifecycle manager raises TransitionError exactly for the
\* targets that are not the immediate successor.
C1_ValidateIffImmediateSuccessor ==
    /\ \A current \in Statuses, target \in Statuses :
         validate_transition(current, target) <=> IsImmediateSuccessor(current, target)
    /\ \A target \in Statuses : ~validate_transition(WORK_DONE, target)
    /\ lastOp.lm # "not_called" =>
         (lastOp.lm = "TransitionError"
            <=> ~IsImmediateSuccessor(lastOp.old_status, lastOp.args.status))

\* C1 witness: the lifecycle manager rejected a target asked for a chore that
\* is in work_done.
C1_Witness ==
    /\ lastOp.op = "transition_chore_state"
    /\ lastOp.lm = "TransitionError"
    /\ lastOp.old_status = WORK_DONE

\* C2: a request through Repository.update for a target status that is not
\* the immediate successor is rejected with TransitionError, and the status
\* of the chore in memory and in the active store stays as it was.
C2_UpdateRejectsNonSuccessor ==
    ( /\ lastOp.op = "update"
      /\ lastOp.known
      /\ lastOp.args.status \notin {None, lastOp.old_status}
      /\ ~IsImmediateSuccessor(lastOp.old_status, lastOp.args.status) )
    => /\ lastOp.raised = "TransitionError"
       /\ obj[lastOp.id].status = lastOp.old_status
       /\ StoredStatus(active, lastOp.id) = lastOp.old_stored

\* C3: a change of status asked through transition_chore_state or update for
\* a chore with a sub-chore that is not in work_done (can_advance() false)
\* raises TransitionError and leaves the status of the parent unchanged.
C3_ParentWaitsForSubChores ==
    (AskedStatusChange /\ ~lastOp.could_advance)
    => /\ lastOp.raised = "TransitionError"
       /\ obj[lastOp.id].status = lastOp.old_status

\* C4: after a Repository operation, and in particular after advance_status
\* followed by update(id, status=chore.status), validate_system_integrity()
\* reports valid.
C4_IntegrityAfterAdvanceAndUpdate ==
    ( /\ lastOp.op = "update"
      /\ lastOp.prev_op = "advance_status"
      /\ lastOp.known
      /\ lastOp.args.status = lastOp.old_status )
    => ValidateChoreLocations(active, archive).valid

\* The last operation was update(id, status=work_done) on a chore in work_review.
UpdatedToWorkDone ==
    /\ lastOp.op = "update"
    /\ lastOp.known
    /\ lastOp.old_status = "work_review"
    /\ lastOp.args.status = WORK_DONE

\* C5: after update moved a chore from work_review to work_done, its id is
\* in the completed store and not in the active store,
\* validate_chore_locations reports no issue for that id, and read(id)
\* returns None.
C5_ArchivedInOneStore ==
    UpdatedToWorkDone
    => /\ lastOp.id \in FileIds(archive)
       /\ lastOp.id \notin FileIds(active)
       /\ \A issue \in ValidateChoreLocations(active, archive).issues :
            issue[2] # lastOp.id
       /\ RepoRead(World, lastOp.id) = NoId

\* C5 witness: such an update has happened while another chore was active.
C5_Witness ==
    /\ UpdatedToWorkDone
    /\ chores # {}

\* C6: transition_chore_state asked for a target the table does not allow
\* raises TransitionError and changes nothing: not the chore's status,
\* progress_info or review_info, nor the in-memory active set, the active
\* store or the completed store.
C6_InvalidTransitionMutatesNothing ==
    [][ ( /\ lastOp'.op = "transition_chore_state"
          /\ lastOp'.args.status \notin VALID_TRANSITIONS[lastOp'.old_status] )
        => /\ lastOp'.raised = "TransitionError"
           /\ obj' = obj
           /\ chores' = chores
           /\ active' = active
           /\ archive' = archive ]_vars

\* C6 witness: transition_chore_state was given notes and a target that skips
\* a status, and raised TransitionError.
C6_Witness ==
    /\ lastOp.op = "transition_chore_state"
    /\ lastOp.raised = "TransitionError"
    /\ lastOp.args.progress_info # None
    /\ StatusIndex(lastOp.args.status) > StatusIndex(lastOp.old_status) + 1

\* C7: update(id, status=work_done) on a chore in work_review returns None.
C7_UpdateToWorkDoneReturnsNone ==
    UpdatedToWorkDone => lastOp.ret = None

\* C8: a change of status that update commits through the lifecycle manager
\* is followed, before update returns, by exactly one
\* on_chore_state_change(chore, old_status, new_status) notification.
C8_StateChangeNotified ==
    (lastOp.op = "update" /\ lastOp.lm = "ok")
    => lastOp.events =
         << << "state_change", lastOp.id, lastOp.old_status, lastOp.args.status >> >>

\* What the repository operation recorded in op gives from world w when the
\* dispatcher action ends as h.
RepoOutcome(w, op, h) ==
    CASE op.op = "create" ->
           RepoCreate(w, op.id, op.args.name, op.args.description, h)
      [] op.op = "create_sub_chore" ->
           RepoCreateSubChore(w, op.id, op.id2, op.args.name, op.args.description, h)
      [] op.op = "update" ->
           RepoUpdate(w, op.id, op.args.name, op.args.description, op.args.status,
                      op.args.progress_info, op.args.review_info, h)
      [] op.op = "delete" ->
           RepoDelete(w, op.id, h)

\* C9: when the dispatcher action raises while a creation, deletion or
\* status-change event is handled, the repository operation completes as if
\* the hook had succeeded: the same objects, active set, active store and
\* completed store, the same return value, and no exception for the caller.
C9_HookFailureChangesNothing ==
    [][ ( /\ hook = "raises"
          /\ lastOp'.op \in {"create", "create_sub_chore", "update", "delete"}
          /\ lastOp'.events # << >> )
        => LET r == RepoOutcome(World, lastOp', "ok")
           IN  /\ lastOp'.raised = "none"
               /\ lastOp'.ret = r.ret
               /\ World' = r.w ]_vars

\* C9 witness: a delete that cascaded to a sub-chore returned True although
\* the dispatcher raised at both deletion events.
C9_Witness ==
    /\ hook = "raises"
    /\ lastOp.op = "delete"
    /\ lastOp.ret = "True"
    /\ Len(lastOp.events) = 2
    /\ lastOp.id \notin chores
    /\ lastOp.id \notin FileIds(active)

\* Everything in memory has been saved: the active file is what
\* save_active_chores writes for the current active set.
Persisted == active = SaveActiveChores(World).active

\* C10: a new repository constructed on the store file of a repository whose
\* items are persisted has the same ids with the same name, description,
\* status, progress_info, review_info and parent id, every parent's list of
\* sub-chores holds exactly its sub-chores, and every successor link to an
\* active item is resolved.
C10_ReloadRoundTrip ==
    [][ (lastOp'.op = "reload" /\ Persisted)
        => /\ chores' = chores
           /\ \A id \in chores :
                /\ obj'[id].name = obj[id].name
                /\ obj'[id].description = obj[id].description
                /\ obj'[id].status = obj[id].status
                /\ obj'[id].progress_info = obj[id].progress_info
                /\ obj'[id].review_info = obj[id].review_info
                /\ obj'[id].parent_chore_id = obj[id].parent_chore_id
                /\ { obj'[id].sub_chores[i] : i \in 1..Len(obj'[id].sub_chores) }
                     = { c \in chores : obj[c].parent_chore_id = id }
                /\ obj[id].next_chore \in chores
                     => obj'[id].next_chore = obj[id].next_chore ]_vars

\* ------------------------------------------- Chore.advance_status on its own

\* Number of advance_status() calls of one run.
MaxAdvances == 18

\* Chore objects made outside a repository, as the tests of Chore make them:
\* one chore in design, alone or with one sub-chore in design in its list.
NewFamilies ==
    { (1 :> NewChore(1, n, d, NoId)) : n \in Names, d \in Descriptions }
    \cup
    { (1 :> [ NewChore(1, n, d, NoId) EXCEPT !.sub_chores = << 2 >> ])
      @@ (2 :> NewChore(2, n, d, 1)) : n \in Names, d \in Descriptions }

InitAdvance ==
    /\ obj \in NewFamilies
    /\ chores = {}
    /\ active = << >>
    /\ archive = << >>
    /\ nextId = Cardinality(DOMAIN obj) + 1
    /\ hook = "ok"
    /\ ops = 0
    /\ advances = [ id \in DOMAIN obj |-> 0 ]
    /\ SnowflakeUnused
    /\ TmuxUnused
    /\ lastOp = [ op |-> "init", id |-> NoId, old_status |-> None,
                  could_advance |-> TRUE, ret |-> FALSE ]

\* chore.advance_status() on one of the objects
Advance ==
    /\ ops < MaxAdvances
    /\ \E id \in DOMAIN obj :
         LET a == advance_status(obj, obj[id])
         IN  /\ obj' = [ obj EXCEPT ![id] = a.o ]
             /\ advances' = [ advances EXCEPT ![id] = IF a.ret THEN @ + 1 ELSE @ ]
             /\ lastOp' = [ op |-> "advance_status", id |-> id,
                            old_status |-> obj[id].status,
                            could_advance |-> can_advance(obj, obj[id]),
                            ret |-> a.ret ]
    /\ ops' = ops + 1
    /\ UNCHANGED << chores, active, archive, nextId, hook, snowVars, tmuxVars >>

NextAdvance == Advance

SpecAdvance == InitAdvance /\ [][NextAdvance]_vars

\* C11: from design, every advance_status() on a chore whose sub-chores (if
\* it has any) are all complete returns True and moves the chore to the
\* status right after its own, until the chore is in work_done; no call moves
\* it further than one status; the chore is in work_done exactly when 8 calls
\* have returned True; a call on a chore in work_done returns False and leaves
\* it in work_done.
C11_AdvanceOneStatusAtATime ==
    [][ lastOp'.op = "advance_status"
        => LET id  == lastOp'.id
               old == obj[id].status
               new == obj'[id].status
           IN  /\ (can_advance(obj, obj[id]) /\ old # WORK_DONE)
                    => (lastOp'.ret /\ IsImmediateSuccessor(old, new))
               /\ lastOp'.ret => IsImmediateSuccessor(old, new)
               /\ ~lastOp'.ret => new = old
               /\ old = WORK_DONE => (~lastOp'.ret /\ new = WORK_DONE)
               /\ (new = WORK_DONE) <=> (advances'[id] = 8)
               /\ advances'[id] = StatusIndex(new) - 1 ]_vars

\* A parent whose sub-chore is complete has reached work_done after 8 calls
\* that returned True, and one more call has returned False.
C11_Witness ==
    /\ lastOp.op = "advance_status"
    /\ lastOp.id = 1
    /\ is_parent(obj[1])
    /\ lastOp.old_status = WORK_DONE
    /\ ~lastOp.ret
    /\ obj[1].status = WORK_DONE
    /\ advances[1] = 8

\* ------------------------------------- ArchivalManager.cleanup_duplicates

\* Number of ids the records of the two store files are drawn from.
MaxStored == 2

\* Number of cleanup calls of one run.
MaxCleanups == 2

\* ArchivalManager._dict_to_chore: an object with the seven fields of a
\* record, its successor not linked.
ArchivalDictToChore(data) ==
    [ id |-> data.id, name |-> data.name, description |-> data.description,
      status |-> data.status, next_chore |-> NoId,
      progress_info |-> DictGet(data, "progress_info", None),
      review_info |-> DictGet(data, "review_info", None) ]

\* ArchivalManager._load_chores_from_file: a dict by id; a later line
\* replaces an earlier one with the same id.
LoadChoresFromFile(file) ==
    [ id \in FileIds(file) |->
        ArchivalDictToChore(
            file[CHOOSE i \in 1..Len(file) :
                    /\ file[i].id = id
                    /\ \A j \in (i + 1)..Len(file) : file[j].id # id]) ]

\* ArchivalManager._get_completed_ids
GetCompletedIds(arc) == FileIds(arc)

\* A cleanup that removes a completed chore from the active file without
\* archiving it first.
RECURSIVE CleanupLoopNeverArchives(_, _, _, _)
CleanupLoopNeverArchives(w, keys, completed_ids, cleaned) ==
    IF keys = << >>
    THEN [ w |-> w, cleaned |-> cleaned ]
    ELSE LET chore_id == Head(keys)
         IN  IF w.obj[chore_id].status = WORK_DONE \/ chore_id \in completed_ids
             THEN CleanupLoopNeverArchives([ w EXCEPT !.chores = @ \ {chore_id} ],
                                           Tail(keys), completed_ids, cleaned + 1)
             ELSE CleanupLoopNeverArchives(w, Tail(keys), completed_ids, cleaned)

\* The loop of cleanup_duplicates over list(active_chores.keys()); w.obj and
\* w.chores are the dict loaded from the active file.
RECURSIVE CleanupLoop(_, _, _, _)
CleanupLoop(w, keys, completed_ids, cleaned) ==
    IF keys = << >>
    THEN [ w |-> w, cleaned |-> cleaned ]
    ELSE LET chore_id == Head(keys)
             a == IF chore_id \notin completed_ids
                  THEN ArchiveCompletedChore(w, chore_id).w
                  ELSE w
         IN  IF w.obj[chore_id].status = WORK_DONE \/ chore_id \in completed_ids
             THEN CleanupLoop([ a EXCEPT !.chores = @ \ {chore_id} ],
                              Tail(keys), completed_ids, cleaned + 1)
             ELSE CleanupLoop(w, Tail(keys), completed_ids, cleaned)

\* ArchivalManager.cleanup_duplicates on the two files: the files after the
\* call and the dict returned.
CleanupDuplicates(act, arc) ==
    LET active_chores == LoadChoresFromFile(act)
        completed_ids == GetCompletedIds(arc)
        w0 == [ obj |-> active_chores, chores |-> DOMAIN active_chores,
                active |-> act, archive |-> arc ]
        l  == CleanupLoop(w0, DictOrder(w0.chores), completed_ids, 0)
        s  == SaveActiveChores(l.w)
    IN  [ active |-> s.active, archive |-> s.archive,
          ret |-> [ cleaned_count |-> l.cleaned,
                    remaining_active |-> Cardinality(l.w.chores) ] ]

\* ChoreLifecycleManager.repair_system: cleanup_system, then
\* validate_system_integrity.
RepairSystem(act, arc) ==
    LET cleanup_result == CleanupDuplicates(act, arc)
        validation == ValidateChoreLocations(cleanup_result.active, cleanup_result.archive)
    IN  [ active |-> cleanup_result.active, archive |-> cleanup_result.archive,
          ret |-> [ cleanup |-> cleanup_result.ret, validation |-> validation,
                    repaired |-> validation.valid ] ]

StoredIds == 1..MaxStored

\* The statuses of the records the store files of a run start with.
StoredStatuses == { "design", "work_review", WORK_DONE }

\* The record of a chore as save_active_chores wrote it.
StoredRecord(id, status, next_chore_id) ==
    [ id |-> id, name |-> "n1", description |-> "d1", status |-> status,
      next_chore_id |-> next_chore_id, progress_info |-> None, review_info |-> None ]

\* The files with one record at most for each id of a set, in the order of
\* the ids, each record in any of the statuses and with any successor id.
RECURSIVE FilesOver(_, _)
FilesOver(ids, statuses) ==
    IF ids = {} THEN { << >> }
    ELSE LET m == CHOOSE x \in ids : \A y \in ids : y <= x
             rest == FilesOver(ids \ {m}, statuses)
         IN  rest \cup
             { Append(f, StoredRecord(m, s, n)) :
                 f \in rest, s \in statuses, n \in {NoId} \cup (StoredIds \ {m}) }

\* The active files: what save_active_chores can have written, with records
\* in work_done left in it.
ActiveFiles == FilesOver(StoredIds, StoredStatuses)

\* The completed files: records in work_done, appended in any order.
ArchiveFiles ==
    UNION { { f \in [ 1..n -> { StoredRecord(id, WORK_DONE, NoId) : id \in StoredIds } ] :
                \A i, j \in 1..n : i # j => f[i].id # f[j].id } : n \in 0..MaxStored }

\* A repository constructed on an active file, next to a completed file.
InitCleanup ==
    /\ active \in ActiveFiles
    /\ archive \in ArchiveFiles
    /\ obj = LoadFromFile(active).obj
    /\ chores = LoadFromFile(active).chores
    /\ nextId = MaxStored + 1
    /\ hook = "ok"
    /\ ops = 0
    /\ advances = << >>
    /\ SnowflakeUnused
    /\ TmuxUnused
    /\ lastOp = [ op |-> "init", before |-> ValidateChoreLocations(active, archive),
                  ret |-> [ cleaned_count |-> 0, remaining_active |-> 0 ] ]

\* lifecycle_manager.cleanup_system(): the repository keeps its objects
CleanupSystem ==
    /\ ops < MaxCleanups
    /\ LET c == CleanupDuplicates(active, archive)
       IN  /\ active' = c.active
           /\ archive' = c.archive
           /\ lastOp' = [ op |-> "cleanup_system",
                          before |-> ValidateChoreLocations(active, archive),
                          ret |-> c.ret ]
    /\ ops' = ops + 1
    /\ UNCHANGED << obj, chores, nextId, hook, advances, snowVars, tmuxVars >>

\* repo.repair_system(): the repair, then _chores cleared and loaded again
RepoRepairSystem ==
    /\ ops < MaxCleanups
    /\ LET c == RepairSystem(active, archive)
       IN  /\ active' = c.active
           /\ archive' = c.archive
           /\ obj' = LoadFromFile(c.active).obj
           /\ chores' = LoadFromFile(c.active).chores
           /\ lastOp' = [ op |-> "repair_system",
                          before |-> ValidateChoreLocations(active, archive),
                          ret |-> c.ret.cleanup ]
    /\ ops' = ops + 1
    /\ UNCHANGED << nextId, hook, advances, snowVars, tmuxVars >>

NextCleanup ==
    \/ CleanupSystem
    \/ RepoRepairSystem

SpecCleanup == InitCleanup /\ [][NextCleanup]_vars

\* C12: when cleanup_duplicates has run on stores that were consistent and
\* runs again right after, the second call returns cleaned_count 0 and both
\* store files are after it what they were before it.
C12_SecondCleanupChangesNothing ==
    [][ (lastOp.op # "init" /\ lastOp.before.valid /\ lastOp'.op # "init")
        => /\ lastOp'.ret.cleaned_count = 0
           /\ active' = active
           /\ archive' = archive ]_vars

\* Two calls in a row on consistent stores that hold one active record and
\* one archived record.
C12_Witness ==
    /\ ops = 2
    /\ lastOp.before.valid
    /\ lastOp.ret.cleaned_count = 0
    /\ lastOp.ret.remaining_active = 1
    /\ Len(archive) = 1
    /\ Len(active) = 1

\* The ids of the active file before a step that are not in it after the step.
RemovedIds == FileIds(active) \ FileIds(active')

\* C13: whatever the two store files hold, the records of the completed file
\* all being in work_done, after cleanup_duplicates the active file has no
\* record in work_done and no record whose id is in the completed file, the
\* id of every record removed is in the completed file, cleaned_count is the
\* number of records removed and remaining_active the number of records
\* kept, and validate_chore_locations finds no issue.
C13_CleanupRestoresIntegrity ==
    [][ lastOp'.op \in {"cleanup_system", "repair_system"}
        => /\ \A i \in 1..Len(active') :
                /\ active'[i].status # WORK_DONE
                /\ active'[i].id \notin FileIds(archive')
           /\ RemovedIds \subseteq FileIds(archive')
           /\ lastOp'.ret.cleaned_count = Cardinality(RemovedIds)
           /\ lastOp'.ret.cleaned_count = Len(active) - Len(active')
           /\ lastOp'.ret.remaining_active = Len(active')
           /\ ValidateChoreLocations(active', archive').valid ]_vars

\* A cleanup of stores that held an id in both files and, under another id,
\* a record in work_done in the active file only: both are removed and the
\* second one is archived.
C13_Witness ==
    /\ lastOp.op = "cleanup_system"
    /\ \E a, b \in StoredIds :
         /\ a # b
         /\ << "dual_location", a >> \in lastOp.before.issues
         /\ << "completed_in_active", b >> \in lastOp.before.issues
         /\ << "dual_location", b >> \notin lastOp.before.issues
         /\ {a, b} \subseteq FileIds(archive)
    /\ lastOp.ret.cleaned_count = 2
    /\ lastOp.ret.remaining_active = 0
    /\ active = << >>

\* ------------------------------------------ ChoreRepository.delete of families

\* Number of chores of a family (ids 1..MaxFamily).
MaxFamily == 4

\* Number of operations on a family in one run.
MaxFamilyOps == 3

\* The chore under which create_sub_chore made a chore of a family: chore 1
\* is a root, chores 2 and 3 were made under 1, chore 4 under 2, and so on.
CreatedUnder(id) == id \div 2

\* id was made under ancestor, or under a chore that was.
RECURSIVE IsUnder(_, _)
IsUnder(id, ancestor) ==
    /\ CreatedUnder(id) # NoId
    /\ \/ CreatedUnder(id) = ancestor
       \/ IsUnder(CreatedUnder(id), ancestor)

Descendants(id) == { d \in 1..MaxFamily : IsUnder(d, id) }

\* The repository after create() for chore 1 and create_sub_chore() for
\* chores 2..n.
RECURSIVE BuildFamily(_, _)
BuildFamily(n, h) ==
    IF n = 0
    THEN [ obj |-> << >>, chores |-> {}, active |-> << >>, archive |-> << >> ]
    ELSE IF CreatedUnder(n) = NoId
    THEN RepoCreate(BuildFamily(n - 1, h), n, "n1", "d1", h).w
    ELSE RepoCreateSubChore(BuildFamily(n - 1, h), n, CreatedUnder(n), "n1", "d1", h).w

InitFamily ==
    /\ hook \in HookOutcomes
    /\ \E n \in 1..MaxFamily :
         /\ obj = BuildFamily(n, hook).obj
         /\ chores = BuildFamily(n, hook).chores
         /\ active = BuildFamily(n, hook).active
         /\ archive = BuildFamily(n, hook).archive
         /\ nextId = n + 1
    /\ ops = 0
    /\ advances = << >>
    /\ SnowflakeUnused
    /\ TmuxUnused
    /\ lastOp = [ op |-> "init", id |-> NoId, id2 |-> NoId, args |-> NoArgs,
                  prev_op |-> "init", old_status |-> None, old_stored |-> None,
                  could_advance |-> TRUE,
                  known |-> FALSE, ret |-> None, raised |-> "none",
                  events |-> << >>, lm |-> "not_called", caught |-> "none" ]

\* repo.delete(chore_id), of a chore of the family or of an id never issued
DeleteMember ==
    /\ ops < MaxFamilyOps
    /\ \E id \in 1..(MaxFamily + 1) :
         LET r == RepoDelete(World, id, hook)
         IN  /\ Commit(r.w)
             /\ lastOp' = Op("delete", id, NoId, NoArgs, r)
    /\ UNCHANGED nextId

\* The process ends and a new one constructs ChoreRepository on the store.
Restart ==
    /\ ops < MaxFamilyOps
    /\ LET l == LoadFromFile(active)
           w == [ World EXCEPT !.obj = l.obj, !.chores = l.chores ]
       IN  /\ Commit(w)
           /\ lastOp' = Op("reload", NoId, NoId, NoArgs, Plain(w, None))
    /\ UNCHANGED nextId

NextFamily ==
    \/ DeleteMember
    \/ Restart

SpecFamily == InitFamily /\ [][NextFamily]_vars

\* The position of the deleted event of an id in a list of events (0: none).
EventAt(events, id) ==
    IF \E i \in 1..Len(events) : events[i] = << "deleted", id >>
    THEN CHOOSE i \in 1..Len(events) : events[i] = << "deleted", id >>
    ELSE 0

\* C14: after delete(id) has returned True, the chore and the chores made
\* under it, at any depth, are neither in the repository nor in the active
\* file, the chore is not in the sub-chore list of the chore it was made
\* under, every chore deleted has one deleted event and the event of a
\* sub-chore comes before the event of its parent; delete of an id the
\* repository does not have returns False and changes nothing.
C14_DeleteCascades ==
    [][ lastOp'.op = "delete"
        => LET id == lastOp'.id
               family == {id} \cup Descendants(id)
               deleted == chores \ chores'
               events == lastOp'.events
           IN  IF id \in chores
               THEN /\ lastOp'.ret = "True"
                    /\ family \cap chores' = {}
                    /\ family \cap FileIds(active') = {}
                    /\ CreatedUnder(id) \in chores'
                         => \A i \in 1..Len(obj'[CreatedUnder(id)].sub_chores) :
                                obj'[CreatedUnder(id)].sub_chores[i] # id
                    /\ Len(events) = Cardinality(deleted)
                    /\ \A d \in deleted : EventAt(events, d) # 0
                    /\ \A d \in deleted :
                         CreatedUnder(d) \in deleted
                           => EventAt(events, d) < EventAt(events, CreatedUnder(d))
               ELSE /\ lastOp'.ret = "False"
                    /\ lastOp'.events = << >>
                    /\ UNCHANGED << obj, chores, active, archive >> ]_vars

\* ------------------------------- ArchivalManager.save_active_chores, stepwise

\* Number of changes and saves of one run.
MaxSaves == 2

\* What _chore_to_dict and the loop of save_active_chores will write for the
\* chores in memory.
NewContent == SaveActiveChores(World).active

\* The contents the active file has had while create and create_sub_chore
\* built a family of n chores.
ContentsWhileBuilding(n, h) == { BuildFamily(k, h).active : k \in 0..n }

\* A repository that made a family; no save is going on.  lastOp keeps the
\* position of the save: at (idle, writing, crashed), the records to write,
\* the number already handed to f.write, and the complete contents the file
\* has had.
InitSave ==
    /\ hook = "ok"
    /\ \E n \in 1..MaxFamily :
         /\ obj = BuildFamily(n, hook).obj
         /\ chores = BuildFamily(n, hook).chores
         /\ active = BuildFamily(n, hook).active
         /\ archive = BuildFamily(n, hook).archive
         /\ nextId = n + 1
         /\ lastOp = [ at |-> "idle", new |-> << >>, written |-> 0,
                       earlier |-> ContentsWhileBuilding(n, hook) ]
    /\ ops = 0
    /\ advances = << >>
    /\ SnowflakeUnused
    /\ TmuxUnused

\* chore.advance_status() on a chore of the repository: memory only
ChangeInMemory ==
    /\ lastOp.at = "idle"
    /\ ops < MaxSaves
    /\ \E id \in chores :
         /\ advance_status(obj, obj[id]).ret
         /\ obj' = [ obj EXCEPT ![id] = advance_status(obj, obj[id]).o ]
    /\ ops' = ops + 1
    /\ UNCHANGED << chores, active, archive, nextId, hook, lastOp, advances, snowVars, tmuxVars >>

\* open(self.active_file, 'w'): the file is truncated
OpenForWriting ==
    /\ lastOp.at = "idle"
    /\ ops < MaxSaves
    /\ active' = << >>
    /\ lastOp' = [ lastOp EXCEPT !.at = "writing", !.new = NewContent, !.written = 0 ]
    /\ ops' = ops + 1
    /\ UNCHANGED << obj, chores, archive, nextId, hook, advances, snowVars, tmuxVars >>

\* f.write(json.dumps(chore_data) + '\n'): one more record in the buffer
WriteRecord ==
    /\ lastOp.at = "writing"
    /\ lastOp.written < Len(lastOp.new)
    /\ lastOp' = [ lastOp EXCEPT !.written = @ + 1 ]
    /\ UNCHANGED << obj, chores, active, archive, nextId, hook, ops, advances, snowVars, tmuxVars >>

\* The buffer of the file object fills up and is written to the file.
FlushBuffer ==
    /\ lastOp.at = "writing"
    /\ Len(active) < lastOp.written
    /\ active' = SubSeq(lastOp.new, 1, lastOp.written)
    /\ UNCHANGED << obj, chores, archive, nextId, hook, lastOp, ops, advances, snowVars, tmuxVars >>

\* The with block ends: the file is flushed and closed.
CloseFile ==
    /\ lastOp.at = "writing"
    /\ lastOp.written = Len(lastOp.new)
    /\ active' = lastOp.new
    /\ lastOp' = [ lastOp EXCEPT !.at = "idle", !.earlier = @ \cup { lastOp.new } ]
    /\ UNCHANGED << obj, chores, archive, nextId, hook, ops, advances, snowVars, tmuxVars >>

\* The process is killed during the save: what is in the buffer is lost,
\* what is in the file stays.
Crash ==
    /\ lastOp.at = "writing"
    /\ lastOp' = [ lastOp EXCEPT !.at = "crashed" ]
    /\ obj' = << >>
    /\ chores' = {}
    /\ UNCHANGED << active, archive, nextId, hook, ops, advances, snowVars, tmuxVars >>

NextSave ==
    \/ ChangeInMemory
    \/ OpenForWriting
    \/ WriteRecord
    \/ FlushBuffer
    \/ CloseFile
    \/ Crash

SpecSave == InitSave /\ [][NextSave]_vars

\* C15: when the process is killed at any point of save_active_chores, the
\* active file is a complete content it had before, or the complete new
\* content; it is never a part of the records.
C15_CrashLeavesCompleteContent ==
    lastOp.at = "crashed" => active \in lastOp.earlier \cup { lastOp.new }

\* ------------------------------------------------------------- Snowflake

SEQ_BITS == 12
NODE_BITS == 10

\* 1 << n
Pow2(n) == 2 ^ n

MAX_SEQ == Pow2(SEQ_BITS) - 1
NODE_SHIFT == SEQ_BITS
TIME_SHIFT == NODE_BITS + SEQ_BITS

\* Chore._snowflake = Snowflake(node_id=1)
NodeId == 1

\* Number of threads that call next_id.
MaxThreads == 2

\* Number of next_id calls of one run.
MaxCalls == 3

\* The latest time the clock reaches, in ms since EPOCH_MS.
MaxClock == 2

\* How far below MAX_SEQ the sequence of a generator in use starts.
SeqHeadroom == 1

Threads == 1..MaxThreads

\* a | b on non-negative integers
RECURSIVE BitOr(_, _)
BitOr(a, b) ==
    IF a = 0 THEN b
    ELSE IF b = 0 THEN a
    ELSE 2 * BitOr(a \div 2, b \div 2)
         + (IF a % 2 = 1 \/ b % 2 = 1 THEN 1 ELSE 0)

\* ((ts - EPOCH_MS) << TIME_SHIFT) | (node_id << NODE_SHIFT) | sequence,
\* with ts in ms since EPOCH_MS
SnowflakeId(ts, sequence) ==
    BitOr(BitOr(ts * Pow2(TIME_SHIFT), NodeId * Pow2(NODE_SHIFT)), sequence)

\* The end of next_id: last_ts is set, the id returned and the lock released.
ReturnId(g, ts) ==
    [ g |-> [ g EXCEPT !.last_ts = ts, !.lock = 0 ],
      pc |-> "returned", ts |-> ts, id |-> SnowflakeId(ts, g.sequence) ]

\* A next_id that goes on with the same timestamp when the sequence wraps.
NextIdDoesNotWait(g, ts) ==
    IF ts < g.last_ts
    THEN [ g |-> [ g EXCEPT !.lock = 0 ], pc |-> "raised", ts |-> ts, id |-> NoId ]
    ELSE IF ts = g.last_ts
    THEN ReturnId([ g EXCEPT !.sequence = (g.sequence + 1) % Pow2(SEQ_BITS) ], ts)
    ELSE ReturnId([ g EXCEPT !.sequence = 0 ], ts)

\* A next_id that takes the lock with acquire() and releases it with
\* release() at its end only, and resets the sequence before it compares.
NextIdLeaksLock(g, ts) ==
    IF ts < g.last_ts
    THEN [ g |-> [ g EXCEPT !.sequence = 0 ], pc |-> "raised", ts |-> ts, id |-> NoId ]
    ELSE IF ts = g.last_ts
    THEN LET sequence == (g.sequence + 1) % Pow2(SEQ_BITS)
         IN  IF sequence = 0
             THEN [ g |-> [ g EXCEPT !.sequence = 0 ], pc |-> "waiting",
                    ts |-> ts, id |-> NoId ]
             ELSE ReturnId([ g EXCEPT !.sequence = sequence ], ts)
    ELSE ReturnId([ g EXCEPT !.sequence = 0 ], ts)

\* Snowflake.next_id from ts = self._now_ms() on, the lock held: it raises
\* (the with statement releases the lock), or returns an id, or goes to
\* _wait_next_ms.
NextId(g, ts) ==
    IF ts < g.last_ts
    THEN [ g |-> [ g EXCEPT !.lock = 0 ], pc |-> "raised", ts |-> ts, id |-> NoId ]
    ELSE IF ts = g.last_ts
    THEN LET sequence == (g.sequence + 1) % Pow2(SEQ_BITS)
         IN  IF sequence = 0
             THEN [ g |-> [ g EXCEPT !.sequence = 0 ], pc |-> "waiting",
                    ts |-> ts, id |-> NoId ]
             ELSE ReturnId([ g EXCEPT !.sequence = sequence ], ts)
    ELSE ReturnId([ g EXCEPT !.sequence = 0 ], ts)

\* Snowflake.__init__: a generator nobody has called yet.
NewGenerator == [ last_ts |-> -1, sequence |-> 0, lock |-> 0 ]

\* A generator after sequence + 1 calls in the millisecond 0.
UsedGenerator(sequence) == [ last_ts |-> 0, sequence |-> sequence, lock |-> 0 ]

IdleCaller == [ pc |-> "idle", ts |-> -1, id |-> NoId, waited |-> FALSE, after |-> 0 ]

\* A new generator, or one that has issued nearly all or all the ids of the
\* current millisecond; issued holds the last id it returned.
InitSnowflake ==
    /\ \/ /\ generator = NewGenerator
          /\ issued = << >>
       \/ \E sequence \in (MAX_SEQ - SeqHeadroom)..MAX_SEQ :
            /\ generator = UsedGenerator(sequence)
            /\ issued = << SnowflakeId(0, sequence) >>
    /\ clock = [ now |-> 0, stepped_back |-> FALSE ]
    /\ callers = [ t \in Threads |-> IdleCaller ]
    /\ ops = 0
    /\ obj = << >>
    /\ chores = {}
    /\ active = << >>
    /\ archive = << >>
    /\ nextId = 1
    /\ hook = "ok"
    /\ advances = << >>
    /\ lastOp = [ op |-> "init" ]
    /\ TmuxUnused

SnowflakeFrame ==
    UNCHANGED << obj, chores, active, archive, nextId, hook, lastOp, advances, tmuxVars >>

\* A thread calls next_id and enters `with self.lock`.
EnterNextId ==
    /\ ops < MaxCalls
    /\ \E t \in Threads :
         /\ callers[t].pc \in {"idle", "returned", "raised"}
         /\ generator.lock = 0
         /\ generator' = [ generator EXCEPT !.lock = t ]
         /\ callers' = [ callers EXCEPT ![t] = [ IdleCaller EXCEPT !.pc = "locked" ] ]
    /\ ops' = ops + 1
    /\ UNCHANGED << clock, issued >>
    /\ SnowflakeFrame

\* The thread that holds the lock reads the clock and runs next_id up to its
\* return, its raise, or its call of _wait_next_ms.
ObserveClock ==
    /\ \E t \in Threads :
         /\ callers[t].pc = "locked"
         /\ LET r == NextId(generator, clock.now)
            IN  /\ generator' = r.g
                /\ callers' = [ callers EXCEPT ![t] =
                                  [ @ EXCEPT !.pc = r.pc, !.ts = r.ts, !.id = r.id,
                                             !.after = Len(issued) ] ]
                /\ issued' = IF r.pc = "returned" THEN Append(issued, r.id) ELSE issued
    /\ UNCHANGED << clock, ops >>
    /\ SnowflakeFrame

\* A _wait_next_ms that returns what the clock reads, later or not.
WaitNextMsReturnsAtOnce ==
    /\ \E t \in Threads :
         /\ callers[t].pc = "waiting"
         /\ LET r == ReturnId(generator, clock.now)
            IN  /\ generator' = r.g
                /\ callers' = [ callers EXCEPT ![t] =
                                  [ @ EXCEPT !.pc = r.pc, !.ts = r.ts, !.id = r.id,
                                             !.waited = TRUE, !.after = Len(issued) ] ]
                /\ issued' = Append(issued, r.id)
    /\ UNCHANGED << clock, ops >>
    /\ SnowflakeFrame

\* _wait_next_ms sees a later time: next_id goes on with it and returns.
WaitNextMs ==
    /\ \E t \in Threads :
         /\ callers[t].pc = "waiting"
         /\ clock.now > callers[t].ts
         /\ LET r == ReturnId(generator, clock.now)
            IN  /\ generator' = r.g
                /\ callers' = [ callers EXCEPT ![t] =
                                  [ @ EXCEPT !.pc = r.pc, !.ts = r.ts, !.id = r.id,
                                             !.waited = TRUE, !.after = Len(issued) ] ]
                /\ issued' = Append(issued, r.id)
    /\ UNCHANGED << clock, ops >>
    /\ SnowflakeFrame

\* A millisecond passes.
Tick ==
    /\ clock.now < MaxClock
    /\ clock' = [ clock EXCEPT !.now = @ + 1 ]
    /\ UNCHANGED << generator, callers, issued, ops >>
    /\ SnowflakeFrame

\* The system clock is set back by a millisecond.
ClockSetBack ==
    /\ clock.now > 0
    /\ clock' = [ now |-> clock.now - 1, stepped_back |-> TRUE ]
    /\ UNCHANGED << generator, callers, issued, ops >>
    /\ SnowflakeFrame

NextSnowflake ==
    \/ EnterNextId
    \/ ObserveClock
    \/ WaitNextMs
    \/ Tick
    \/ ClockSetBack

SpecSnowflake == InitSnowflake /\ [][NextSnowflake]_vars

\* C16: as long as the clock has never gone back, the ids next_id has
\* returned to its callers, whatever their number and their interleaving,
\* are strictly increasing in the order of their return under the lock, and
\* so pairwise distinct.
C16_IdsStrictlyIncreasing ==
    ~clock.stepped_back
      => \A i, j \in 1..Len(issued) : i < j => issued[i] < issued[j]

\* Two threads got ids, one of them after the sequence wrapped at MAX_SEQ and
\* _wait_next_ms waited for the next millisecond.
C16_Witness ==
    /\ ~clock.stepped_back
    /\ Len(issued) >= 3
    /\ \E t, u \in Threads :
         /\ t # u
         /\ callers[t].pc = "returned"
         /\ callers[t].waited
         /\ callers[u].pc = "returned"
         /\ callers[u].id > callers[t].id

\* C17: a next_id that reads a clock value earlier than last_ts raises and
\* returns no id; last_ts and sequence are what they were, no id is issued,
\* and the lock is free again, so that a later call can take it.
C17_ClockBackwardsRaises ==
    [][ \A t \in Threads :
          (/\ callers[t].pc = "locked"
           /\ callers'[t].pc # "locked"
           /\ clock.now < generator.last_ts)
          => /\ callers'[t].pc = "raised"
             /\ callers'[t].id = NoId
             /\ issued' = issued
             /\ generator'.last_ts = generator.last_ts
             /\ generator'.sequence = generator.sequence
             /\ generator'.lock = 0 ]_vars

\* A call has raised after the clock was set back, and a call that ended
\* later has returned an id.
C17_Witness ==
    /\ clock.stepped_back
    /\ \E t, u \in Threads :
         /\ callers[t].pc = "raised"
         /\ callers[t].ts < generator.last_ts
         /\ callers[u].pc = "returned"
         /\ callers[u].after >= callers[t].after
         /\ issued[Len(issued)] = callers[u].id

\* ----------------------------------------- TMUXWindowManager: the session

\* Number of attach_or_create_session calls and session kills of one run.
MaxSessionOps == 1

\* A session name is the sequence of its characters.  NoSession is None
\* where a name is expected.
NoSession == << None >>

\* TMUXWindowManager(session_name="chores")
DefaultSession == << "c", "h", "o", "r", "e", "s" >>

\* The other names of a run: a session to ask for and the session of a
\* terminal.
DevSession == << "d", "e", "v" >>
TermSession == << "w", "0" >>

\* Names tmux does not take, and the empty string.
BadNames ==
    { << "m", "y", " ", "s" >>, << "a", "/", "b" >>, << "a", "*" >>,
      << "a", "\t", "b" >>, << "a", "\n" >>, << "\r" >>, << >> }

\* The session_id arguments of a run.
SessionIds == { NoSession, DevSession, DefaultSession } \cup BadNames

invalid_chars == { "/", "*", " ", "\t", "\n", "\r" }

\* A check of the name that knows of '/' and '*' only.
IsValidSessionNameTakesBlanks(session_name) ==
    IF session_name = NoSession \/ session_name = << >>
    THEN FALSE
    ELSE ~ \E i \in 1..Len(session_name) : session_name[i] \in { "/", "*" }

\* TMUXWindowManager._is_valid_session_name
IsValidSessionName(session_name) ==
    IF session_name = NoSession \/ session_name = << >>
    THEN FALSE
    ELSE ~ \E i \in 1..Len(session_name) : session_name[i] \in invalid_chars

\* What happens to the tmux commands of one call: each has-session and
\* display-message answers in time ("ok") or not ("timeout"); new-session
\* creates the session ("ok"), exits with an error ("fail"), does not end in
\* time ("timeout"), or exits with 0 and leaves no session ("noop").
Answers ==
    [ check : {"ok", "timeout"}, detect : {"ok", "timeout"},
      check_current : {"ok", "timeout"},
      create : {"ok", "fail", "timeout", "noop"},
      recheck : {"ok", "timeout"}, detect_again : {"ok", "timeout"} ]

\* TMUXWindowManager._validate_session_exists: has-session exits with 0;
\* False when it times out.
ValidateSessionExists(ss, session_name, answer) ==
    answer = "ok" /\ session_name \in ss

\* TMUXWindowManager._detect_current_session: the stripped output of
\* display-message; None outside tmux and when it times out.
DetectCurrentSession(amb, answer) ==
    IF answer = "ok" /\ amb # NoSession THEN amb ELSE NoSession

\* The block "create session if it doesn't exist" of _get_target_session:
\* the sessions after it, the exception it raises, the new-session commands
\* it sent, and the tmux commands whose answers it asked for.
CreateIfMissing(ss, session_name, e) ==
    IF ValidateSessionExists(ss, session_name, e.check)
    THEN [ sessions |-> ss, exc |-> "none", sent |-> << >>, asked |-> {"check"} ]
    ELSE LET sent == << << "new-session", "-d", "-s", session_name >> >>
         IN  IF e.create = "timeout"
             THEN [ sessions |-> ss, exc |-> "Session creation timed out",
                    sent |-> sent, asked |-> {"check", "create"} ]
             ELSE IF e.create = "fail" \/ session_name \in ss
             THEN [ sessions |-> ss, exc |-> "Failed to create session",
                    sent |-> sent, asked |-> {"check", "create"} ]
             ELSE LET after == IF e.create = "ok" THEN ss \cup {session_name} ELSE ss
                  IN  IF ~ValidateSessionExists(after, session_name, e.recheck)
                      THEN [ sessions |-> after,
                             exc |-> "Session creation verification failed",
                             sent |-> sent, asked |-> {"check", "create", "recheck"} ]
                      ELSE [ sessions |-> after, exc |-> "none", sent |-> sent,
                             asked |-> {"check", "create", "recheck"} ]

\* TMUXWindowManager._get_target_session: ret is the value returned (NoSession
\* for None).  The third branch ends without a return statement.
GetTargetSession(ss, amb, session_name, session_id, e) ==
    IF session_id # NoSession
    THEN IF ~IsValidSessionName(session_id)
         THEN [ sessions |-> ss, exc |-> "Invalid session name", sent |-> << >>,
                asked |-> {}, ret |-> NoSession ]
         ELSE LET c == CreateIfMissing(ss, session_id, e)
              IN  [ sessions |-> c.sessions, exc |-> c.exc, sent |-> c.sent,
                    asked |-> c.asked,
                    ret |-> IF c.exc = "none" THEN session_id ELSE NoSession ]
    ELSE LET current_session == DetectCurrentSession(amb, e.detect)
         IN  IF /\ current_session # NoSession
                /\ current_session # << >>
                /\ ValidateSessionExists(ss, current_session, e.check_current)
             THEN [ sessions |-> ss, exc |-> "none", sent |-> << >>,
                    asked |-> {"detect", "check_current"},
                    ret |-> current_session ]
             ELSE LET c == CreateIfMissing(ss, session_name, e)
                  IN  [ sessions |-> c.sessions, exc |-> c.exc, sent |-> c.sent,
                        asked |-> c.asked \cup
                                  (IF current_session # NoSession
                                   THEN {"detect", "check_current"} ELSE {"detect"}),
                        ret |-> NoSession ]

\* f"tmux attach-session -t {target_session}"
AttachCommand(target_session) == << "tmux attach-session -t ", target_session >>

\* TMUXWindowManager.attach_or_create_session: the dict it returns, with the
\* sessions of tmux after it and the new-session commands it sent.
AttachOrCreateSession(ss, amb, session_name, session_id, e) ==
    LET t == GetTargetSession(ss, amb, session_name, session_id, e)
        detected_current == DetectCurrentSession(amb, e.detect_again)
    IN  [ sessions |-> t.sessions, sent |-> t.sent, raised |-> "none",
          asked |-> IF t.exc # "none" THEN t.asked ELSE t.asked \cup {"detect_again"},
          result |->
            IF t.exc # "none"
            THEN [ session_name |-> << >>, attach_command |-> << >>,
                   selection_reason |-> << "error" >>,
                   detected_current_session |-> << "error" >>,
                   success |-> FALSE, error |-> t.exc ]
            ELSE [ session_name |-> t.ret, attach_command |-> AttachCommand(t.ret),
                   selection_reason |->
                       IF session_id # NoSession /\ session_id # << >>
                       THEN << "explicit_session_id", session_id >>
                       ELSE IF detected_current # NoSession
                       THEN << "current_session", detected_current >>
                       ELSE << "fallback", session_name >>,
                   detected_current_session |->
                       IF detected_current # NoSession THEN detected_current
                       ELSE << "none" >>,
                   success |-> TRUE, error |-> "none" ] ]

\* A process with a TMUXWindowManager for the default session, inside a
\* session of tmux or outside tmux; tmux is installed and has any of the
\* sessions.
InitSession ==
    /\ sessions \in SUBSET { DefaultSession, DevSession, TermSession }
    /\ ambient \in { NoSession } \cup sessions
    /\ commands = << >>
    /\ windows = << >>
    /\ ops = 0
    /\ lastOp = [ op |-> "init" ]
    /\ obj = << >>
    /\ chores = {}
    /\ active = << >>
    /\ archive = << >>
    /\ nextId = 1
    /\ hook = "ok"
    /\ advances = << >>
    /\ SnowflakeUnused

SessionFrame ==
    UNCHANGED << obj, chores, active, archive, nextId, hook, advances, snowVars >>

\* manager.attach_or_create_session(session_id); the answers of the commands
\* the call does not send are left at "ok"
AttachOrCreate ==
    /\ ops < MaxSessionOps
    /\ \E session_id \in SessionIds, e \in Answers :
         LET r == AttachOrCreateSession(sessions, ambient, DefaultSession, session_id, e)
         IN  /\ \A c \in DOMAIN e : c \notin r.asked => e[c] = "ok"
             /\ sessions' = r.sessions
             /\ commands' = commands \o r.sent
             /\ lastOp' = [ op |-> "attach_or_create_session",
                            session_id |-> session_id, answers |-> e,
                            result |-> r.result, raised |-> r.raised,
                            sent |-> r.sent ]
    /\ ops' = ops + 1
    /\ UNCHANGED << ambient, windows >>
    /\ SessionFrame

\* Somebody kills a session the process is not in.
KillSession ==
    /\ ops < MaxSessionOps
    /\ \E s \in sessions \ { ambient } :
         sessions' = sessions \ { s }
    /\ lastOp' = [ op |-> "kill-session" ]
    /\ ops' = ops + 1
    /\ UNCHANGED << ambient, commands, windows >>
    /\ SessionFrame

NextSession ==
    \/ AttachOrCreate
    \/ KillSession

SpecSession == InitSession /\ [][NextSession]_vars

\* The current session was detected and has-session found it, in a step of
\* attach_or_create_session without a session_id.
CurrentSessionVerified ==
    /\ ambient # NoSession
    /\ lastOp'.answers.detect = "ok"
    /\ lastOp'.answers.check_current = "ok"
    /\ ambient \in sessions

\* C18: a successful attach_or_create_session resolves the session in the
\* order explicit, current, default: with a session_id the session is the
\* session_id, whatever the current session is; without one, and with a
\* current session that has-session found, it is the current session and no
\* new-session command is sent; otherwise it is the default name, and that
\* session exists.  The result has the resolved name as session_name and in
\* attach_command.
C18_ResolvedByPriority ==
    [][ (lastOp'.op = "attach_or_create_session" /\ lastOp'.result.success)
        => LET resolved ==
                   IF lastOp'.session_id # NoSession THEN lastOp'.session_id
                   ELSE IF CurrentSessionVerified THEN ambient
                   ELSE DefaultSession
           IN  /\ lastOp'.result.session_name = resolved
               /\ lastOp'.result.attach_command = AttachCommand(resolved)
               /\ (lastOp'.session_id = NoSession /\ CurrentSessionVerified)
                    => lastOp'.sent = << >>
               /\ resolved \in sessions' ]_vars

\* C19: attach_or_create_session with a session_id that has a space, a '/',
\* a '*', a tab or a newline in it returns a failure (success False, the
\* session name empty, an error text), raises nothing, and sends no
\* new-session command.
C19_BadNameFailsWithoutCreate ==
    [][ (/\ lastOp'.op = "attach_or_create_session"
         /\ lastOp'.session_id # NoSession
         /\ \E i \in 1..Len(lastOp'.session_id) :
               lastOp'.session_id[i] \in { " ", "/", "*", "\t", "\n" })
        => /\ lastOp'.raised = "none"
           /\ ~lastOp'.result.success
           /\ lastOp'.result.session_name = << >>
           /\ lastOp'.result.error # "none"
           /\ lastOp'.sent = << >>
           /\ commands' = commands
           /\ sessions' = sessions ]_vars

\* A call with a session_id that has a space in it has failed, in a tmux
\* that has no session.
C19_Witness ==
    /\ lastOp.op = "attach_or_create_session"
    /\ lastOp.session_id # NoSession
    /\ \E i \in 1..Len(lastOp.session_id) : lastOp.session_id[i] = " "
    /\ ~lastOp.result.success
    /\ lastOp.result.error = "Invalid session name"
    /\ commands = << >>
    /\ sessions = {}

\* The session a call without a usable current session works on: the
\* session_id, or the default name.
TargetOfCreate ==
    IF lastOp'.session_id # NoSession THEN lastOp'.session_id ELSE DefaultSession

\* C20: when the session to use, the session_id or the default one, does not
\* exist, one new-session command is sent for it and has-session is asked
\* again; when new-session fails or times out, or the session is not found
\* afterwards, the call fails.  When the session exists, no new-session
\* command is sent.
C20_CreateOnlyWhenAbsent ==
    [][ (/\ lastOp'.op = "attach_or_create_session"
         /\ \/ lastOp'.session_id # NoSession /\ IsValidSessionName(lastOp'.session_id)
            \/ lastOp'.session_id = NoSession /\ ~CurrentSessionVerified)
        => IF TargetOfCreate \notin sessions
           THEN /\ lastOp'.sent = << << "new-session", "-d", "-s", TargetOfCreate >> >>
                /\ (\/ lastOp'.answers.create \in {"fail", "timeout"}
                    \/ TargetOfCreate \notin sessions'
                    \/ lastOp'.answers.recheck # "ok")
                     => ~lastOp'.result.success
           ELSE lastOp'.sent = << >> ]_vars

\* ------------------------------------------- ChoreDispatcher: the names

\* A text (a chore name, a window name) is the sequence of its characters.
Letters == << "a", "b", "c", "d", "e", "f", "g", "h", "i", "j", "k", "l", "m", "n", "o", "p", "q", "r", "s", "t", "u", "v", "w", "x", "y", "z" >>
Capitals == << "A", "B", "C", "D", "E", "F", "G", "H", "I", "J", "K", "L", "M", "N", "O", "P", "Q", "R", "S", "T", "U", "V", "W", "X", "Y", "Z" >>
DigitChars == << "0", "1", "2", "3", "4", "5", "6", "7", "8", "9" >>

\* str.lower() and str.upper() of one character
Lower(c) ==
    IF \E i \in 1..Len(Capitals) : Capitals[i] = c
    THEN Letters[CHOOSE i \in 1..Len(Capitals) : Capitals[i] = c]
    ELSE c

Upper(c) ==
    IF \E i \in 1..Len(Letters) : Letters[i] = c
    THEN Capitals[CHOOSE i \in 1..Len(Letters) : Letters[i] = c]
    ELSE c

MapChars(F(_), text) == [ i \in 1..Len(text) |-> F(text[i]) ]

\* str.replace(old, new) for single characters
Replace(text, old, new) == [ i \in 1..Len(text) |-> IF text[i] = old THEN new ELSE text[i] ]

\* The characters \w and \s of a regular expression match.
WordChars ==
    { Letters[i] : i \in 1..Len(Letters) } \cup { Capitals[i] : i \in 1..Len(Capitals) }
    \cup { DigitChars[i] : i \in 1..Len(DigitChars) } \cup { "_" }
SpaceChars == { " ", "\t", "\n", "\r" }

\* str(n) of a natural number
RECURSIVE Str(_)
Str(n) ==
    IF n < 10 THEN << DigitChars[n + 1] >>
    ELSE Str(n \div 10) \o << DigitChars[(n % 10) + 1] >>

\* int(text) of a text of digits; -1 stands for ValueError
IsDigits(text) ==
    /\ Len(text) > 0
    /\ \A i \in 1..Len(text) : \E d \in 1..10 : DigitChars[d] = text[i]

RECURSIVE IntOfDigits(_)
IntOfDigits(text) ==
    IF Len(text) = 0 THEN 0
    ELSE 10 * IntOfDigits(SubSeq(text, 1, Len(text) - 1))
         + (CHOOSE d \in 0..9 : DigitChars[d + 1] = text[Len(text)])

IntOf(text) == IF IsDigits(text) THEN IntOfDigits(text) ELSE -1

\* text.split(sep): the parts between the separators, at least one
RECURSIVE Split(_, _)
Split(text, sep) ==
    IF ~ \E i \in 1..Len(text) : text[i] = sep
    THEN << text >>
    ELSE LET i == CHOOSE k \in 1..Len(text) :
                     text[k] = sep /\ \A j \in 1..(k - 1) : text[j] # sep
         IN  << SubSeq(text, 1, i - 1) >> \o Split(SubSeq(text, i + 1, Len(text)), sep)

\* text.startswith(prefix)
StartsWith(text, prefix) ==
    Len(prefix) <= Len(text) /\ SubSeq(text, 1, Len(prefix)) = prefix

\* re.sub(r'[^\w\s-]', '', text)
DropOtherChars(text) ==
    SelectSeq(text, LAMBDA c : c \in WordChars \cup SpaceChars \cup { "-" })

\* re.sub(r'[-\s]+', '-', text): each run of hyphens and blanks becomes '-'
RECURSIVE CollapseRuns(_)
CollapseRuns(text) ==
    IF Len(text) = 0 THEN << >>
    ELSE IF Head(text) \in SpaceChars \cup { "-" }
    THEN IF Len(text) > 1 /\ text[2] \in SpaceChars \cup { "-" }
         THEN CollapseRuns(Tail(text))
         ELSE << "-" >> \o CollapseRuns(Tail(text))
    ELSE << Head(text) >> \o CollapseRuns(Tail(text))

\* text.strip('-')
RECURSIVE StripHyphens(_)
StripHyphens(text) ==
    IF Len(text) > 0 /\ Head(text) = "-" THEN StripHyphens(Tail(text))
    ELSE IF Len(text) > 0 /\ text[Len(text)] = "-"
    THEN StripHyphens(SubSeq(text, 1, Len(text) - 1))
    ELSE text

\* ChoreDispatcher._slugify
Slugify(text) ==
    LET slug == StripHyphens(CollapseRuns(DropOtherChars(MapChars(Lower, text))))
    IN  SubSeq(slug, 1, IF Len(slug) < 30 THEN Len(slug) ELSE 30)

\* ChoreStatus.value, by member
StatusValue ==
    [ design |-> << "d", "e", "s", "i", "g", "n" >>,
      design_review |-> << "d", "e", "s", "i", "g", "n", "_", "r", "e", "v", "i", "e", "w" >>,
      design_ready |-> << "d", "e", "s", "i", "g", "n", "_", "r", "e", "a", "d", "y" >>,
      plan |-> << "p", "l", "a", "n" >>,
      plan_review |-> << "p", "l", "a", "n", "_", "r", "e", "v", "i", "e", "w" >>,
      plan_ready |-> << "p", "l", "a", "n", "_", "r", "e", "a", "d", "y" >>,
      work |-> << "w", "o", "r", "k" >>,
      work_review |-> << "w", "o", "r", "k", "_", "r", "e", "v", "i", "e", "w" >>,
      work_done |-> << "w", "o", "r", "k", "_", "d", "o", "n", "e" >> ]

ChorePrefix == << "c", "h", "o", "r", "e", "-" >>

\* ChoreDispatcher._get_window_name
GetWindowName(chore) ==
    ChorePrefix \o Str(chore.id) \o << "-" >> \o Slugify(chore.name)

\* ChoreDispatcher._get_window_name_with_status
GetWindowNameWithStatus(chore) ==
    LET status_slug == Replace(MapChars(Lower, StatusValue[chore.status]), "_", "-")
    IN  GetWindowName(chore) \o << "-" >> \o status_slug

\* The empty dict _parse_window_name returns for a name it cannot parse.
EmptyDict == << >>

\* ChoreDispatcher._parse_window_name: the dict it returns
ParseWindowName(window_name) ==
    LET parts == Split(window_name, "-")
    IN  IF Len(parts) >= 4 /\ parts[1] = << "c", "h", "o", "r", "e" >> /\ IntOf(parts[2]) # -1
        THEN [ id |-> IntOf(parts[2]),
               status |-> MapChars(Upper, Replace(parts[Len(parts)], "-", "_")) ]
        ELSE EmptyDict

\* --------------------------------------------------- the tmux server

\* ChoreDispatcher(session_name="chore-dispatcher")
DispatcherSession == << "c", "h", "o", "r", "e", "-", "d", "i", "s", "p", "a", "t", "c", "h", "e", "r" >>

\* The window a new session starts with.
ShellWindow == [ name |-> << "z", "s", "h" >>, panes |-> 1 ]

\* The tmux server as one operation sees it: w, the windows by session in
\* index order, each with its name and its number of panes (pane indexes run
\* from 0), and log, the commands the operation has sent so far with their
\* exit codes and outputs.
Server(w) == [ w |-> w, log |-> << >> ]

Sent(t, w, cmd, target, rc, out) ==
    [ w |-> w,
      log |-> Append(t.log, [ cmd |-> cmd, target |-> target, rc |-> rc, out |-> out ]) ]

\* returncode and stdout of the last command
Rc(t) == t.log[Len(t.log)].rc
Out(t) == t.log[Len(t.log)].out

RemoveAt(ws, i) == SubSeq(ws, 1, i - 1) \o SubSeq(ws, i + 1, Len(ws))

\* How tmux resolves "-t session:window": the window of that name, else the
\* window whose name starts with it; no window (0) when there is none or
\* more than one.
FindWindow(t, session, window) ==
    IF session \notin DOMAIN t.w THEN 0
    ELSE LET ws == t.w[session]
             exact == { i \in 1..Len(ws) : ws[i].name = window }
             starts == { i \in 1..Len(ws) : StartsWith(ws[i].name, window) }
         IN  IF exact # {}
             THEN IF Cardinality(exact) = 1 THEN CHOOSE i \in exact : TRUE ELSE 0
             ELSE IF Cardinality(starts) = 1 THEN CHOOSE i \in starts : TRUE ELSE 0

TmuxHasSession(t, session) ==
    Sent(t, t.w, "has-session", << session >>,
         IF session \in DOMAIN t.w THEN 0 ELSE 1, << >>)

TmuxNewSession(t, session) ==
    IF session \in DOMAIN t.w
    THEN Sent(t, t.w, "new-session", << session >>, 1, << >>)
    ELSE Sent(t, (session :> << ShellWindow >>) @@ t.w, "new-session", << session >>, 0, << >>)

\* new-window: the window is there while its command runs; a command that
\* exits at once ("exits") takes the window with it.
TmuxNewWindow(t, session, name, spawn) ==
    IF session \notin DOMAIN t.w
    THEN Sent(t, t.w, "new-window", << session, name >>, 1, << >>)
    ELSE Sent(t, IF spawn = "runs"
                 THEN [ t.w EXCEPT ![session] = Append(@, [ name |-> name, panes |-> 1 ]) ]
                 ELSE t.w,
              "new-window", << session, name >>, 0, << >>)

\* split-window: one more pane in the window, while its command runs
TmuxSplitWindow(t, session, window, spawn) ==
    LET i == FindWindow(t, session, window)
    IN  IF i = 0
        THEN Sent(t, t.w, "split-window", << session, window >>, 1, << >>)
        ELSE Sent(t, IF spawn = "runs"
                     THEN [ t.w EXCEPT ![session][i].panes = @ + 1 ]
                     ELSE t.w,
                  "split-window", << session, window >>, 0, << >>)

\* "-t session:window" without a pane index
NoPane == -1

\* select-pane -t session:window or session:window.pane
TmuxSelectPane(t, session, window, pane) ==
    LET i == FindWindow(t, session, window)
    IN  Sent(t, t.w, "select-pane", << session, window, pane >>,
             IF i # 0 /\ (pane = NoPane \/ pane < t.w[session][i].panes) THEN 0 ELSE 1,
             << >>)

TmuxSendKeys(t, session, window, pane) ==
    LET i == FindWindow(t, session, window)
    IN  Sent(t, t.w, "send-keys", << session, window, pane >>,
             IF i # 0 /\ pane < t.w[session][i].panes THEN 0 ELSE 1, << >>)

\* kill-pane: the panes after it move up; the last pane takes the window
\* with it
TmuxKillPane(t, session, window, pane) ==
    LET i == FindWindow(t, session, window)
    IN  IF i = 0 \/ pane >= t.w[session][i].panes
        THEN Sent(t, t.w, "kill-pane", << session, window, pane >>, 1, << >>)
        ELSE Sent(t, IF t.w[session][i].panes = 1
                     THEN [ t.w EXCEPT ![session] = RemoveAt(@, i) ]
                     ELSE [ t.w EXCEPT ![session][i].panes = @ - 1 ],
                  "kill-pane", << session, window, pane >>, 0, << >>)

TmuxKillWindow(t, session, window) ==
    LET i == FindWindow(t, session, window)
    IN  IF i = 0
        THEN Sent(t, t.w, "kill-window", << session, window >>, 1, << >>)
        ELSE Sent(t, [ t.w EXCEPT ![session] = RemoveAt(@, i) ],
                  "kill-window", << session, window >>, 0, << >>)

TmuxRenameWindow(t, session, window, new_name) ==
    LET i == FindWindow(t, session, window)
    IN  IF i = 0
        THEN Sent(t, t.w, "rename-window", << session, window, new_name >>, 1, << >>)
        ELSE Sent(t, [ t.w EXCEPT ![session][i].name = new_name ],
                  "rename-window", << session, window, new_name >>, 0, << >>)

\* list-windows -F '#{window_name}': the output, and what
\* stdout.strip().split('\n') makes of it (one empty name for no output)
TmuxListWindows(t, session) ==
    IF session \notin DOMAIN t.w
    THEN Sent(t, t.w, "list-windows", << session >>, 1, << << >> >>)
    ELSE Sent(t, t.w, "list-windows", << session >>, 0,
              IF Len(t.w[session]) = 0 THEN << << >> >>
              ELSE [ i \in 1..Len(t.w[session]) |-> t.w[session][i].name ])

\* list-panes -F '#{pane_index}'
TmuxListPanes(t, session, window) ==
    LET i == FindWindow(t, session, window)
    IN  IF i = 0
        THEN Sent(t, t.w, "list-panes", << session, window >>, 1, << >>)
        ELSE Sent(t, t.w, "list-panes", << session, window >>, 0,
                  [ p \in 1..t.w[session][i].panes |-> p - 1 ])

InList(x, list) == \E i \in 1..Len(list) : list[i] = x

\* ----------------------------------- ChoreDispatcher and DispatcherHooks

\* What a method leaves behind: the tmux server and the value it returns.
Returns(t, ret) == [ t |-> t, ret |-> ret ]

\* result = subprocess.run(...): the outcome of a command under a name, for
\* the statements that follow.
With(result, Body(_)) == Body(result)

\* What becomes of the kiro-cli command a new window or pane is given: it
\* runs, or it exits at once.
Spawns == { "runs", "exits" }

\* ChoreDispatcher.ensure_dispatcher_session
ensure_dispatcher_session(t) ==
    With(TmuxHasSession(t, DispatcherSession), LAMBDA h :
        IF Rc(h) = 0 THEN Returns(h, TRUE)
        ELSE With(TmuxNewSession(h, DispatcherSession), LAMBDA n :
                 Returns(n, Rc(n) = 0)))

\* ChoreDispatcher.create_worker_window
create_worker_window(t, chore, spawn) ==
    With(ensure_dispatcher_session(t), LAMBDA e :
        IF ~e.ret THEN Returns(e.t, FALSE)
        ELSE With(TmuxNewWindow(e.t, DispatcherSession, GetWindowName(chore), spawn),
                  LAMBDA n :
                 IF Rc(n) # 0 THEN Returns(n, FALSE)
                 ELSE With(TmuxSelectPane(n, DispatcherSession, GetWindowName(chore),
                                          NoPane),
                           LAMBDA s : Returns(s, Rc(s) = 0))))

\* f"chore-{chore_id}-"
ChoreWindowPrefix(chore_id) == ChorePrefix \o Str(chore_id) \o << "-" >>

\* The first window name of a list that starts with the prefix of the chore;
\* the empty name when there is none.
FirstWindowOf(chore_id, names) ==
    LET hits == { i \in 1..Len(names) : StartsWith(names[i], ChoreWindowPrefix(chore_id)) }
    IN  IF hits = {} THEN << >>
        ELSE names[CHOOSE i \in hits : \A j \in hits : i <= j]

\* ChoreDispatcher.cleanup_worker_window: kills the first window of the list
\* whose name starts with the prefix of the chore
cleanup_worker_window(t, chore_id) ==
    With(TmuxListWindows(t, DispatcherSession), LAMBDA l :
        IF Rc(l) # 0 THEN Returns(l, FALSE)
        ELSE IF FirstWindowOf(chore_id, Out(l)) = << >> THEN Returns(l, FALSE)
        ELSE With(TmuxKillWindow(l, DispatcherSession, FirstWindowOf(chore_id, Out(l))),
                  LAMBDA k : Returns(k, Rc(k) = 0)))

\* The keys of ChoreDispatcher._generate_chore_context
ContextKeys ==
    << "CHORE_ID", "CHORE_NAME", "CHORE_DESCRIPTION", "CHORE_STATUS", "CHORE_ROLE" >>

\* The loops of update_chore_context: one send-keys for each key in each
\* pane, until one fails; n is the number of those sent so far.
RECURSIVE SendContext(_, _, _, _)
SendContext(t, window_name, pane_indices, n) ==
    IF n = Len(pane_indices) * Len(ContextKeys) THEN Returns(t, TRUE)
    ELSE With(TmuxSendKeys(t, DispatcherSession, window_name,
                           pane_indices[(n \div Len(ContextKeys)) + 1]),
              LAMBDA s : IF Rc(s) # 0 THEN Returns(s, FALSE)
                         ELSE SendContext(s, window_name, pane_indices, n + 1))

\* ChoreDispatcher.update_chore_context
update_chore_context(t, chore) ==
    With(TmuxListPanes(t, DispatcherSession, GetWindowName(chore)), LAMBDA l :
        IF Rc(l) # 0 THEN Returns(l, FALSE)
        ELSE SendContext(l, GetWindowName(chore), Out(l), 0))

\* ChoreDispatcher.rename_chore_window; old_window_name is empty for None
rename_chore_window(t, chore, old_window_name) ==
    With(TmuxRenameWindow(t, DispatcherSession,
                          IF old_window_name = << >> THEN GetWindowName(chore)
                          ELSE old_window_name,
                          GetWindowNameWithStatus(chore)),
         LAMBDA r : Returns(r, Rc(r) = 0))

\* ChoreDispatcher._window_exists
window_exists(t, window_name) ==
    With(TmuxListWindows(t, DispatcherSession), LAMBDA l :
        Returns(l, InList(window_name, Out(l))))

\* ChoreDispatcher.create_reviewer_pane
create_reviewer_pane(t, chore, spawn) ==
    With(window_exists(t, GetWindowName(chore)), LAMBDA x :
    With(IF ~x.ret THEN create_worker_window(x.t, chore, spawn).t ELSE x.t, LAMBDA c :
    With(TmuxSplitWindow(c, DispatcherSession, GetWindowName(chore), spawn), LAMBDA s :
        IF Rc(s) # 0 THEN Returns(s, FALSE)
        ELSE With(TmuxSelectPane(s, DispatcherSession, GetWindowName(chore), 1),
                  LAMBDA p : Returns(p, Rc(p) = 0)))))

\* ChoreDispatcher.cleanup_reviewer_pane
cleanup_reviewer_pane(t, chore) ==
    With(window_exists(t, GetWindowName(chore)), LAMBDA x :
        IF ~x.ret THEN Returns(x.t, TRUE)
        ELSE Returns(TmuxKillPane(x.t, DispatcherSession, GetWindowName(chore), 1), TRUE))

ReviewStatuses == { "design_review", "plan_review", "work_review" }

\* What a hook leaves behind: the tmux server and the exception its
\* try block caught.
Caught(t, exc) == [ t |-> t, caught |-> exc ]

\* The if / elif chain at the head of on_chore_state_change.
\* ChoreDispatcher has no create_planner_pane.
CreateForStatus(t, chore, old_status, new_status, spawn) ==
    IF new_status \in { "design", "work" }
    THEN IF old_status \notin { "design", "plan", "work" }
         THEN Caught(create_worker_window(t, chore, spawn).t, "none")
         ELSE Caught(t, "none")
    ELSE IF new_status = "plan"
    THEN Caught(t, "AttributeError: create_planner_pane")
    ELSE IF new_status \in ReviewStatuses
    THEN Caught(create_reviewer_pane(t, chore, spawn).t, "none")
    ELSE IF new_status = WORK_DONE
    THEN Caught(cleanup_worker_window(t, chore.id).t, "none")
    ELSE Caught(t, "none")

\* DispatcherHooks.on_chore_state_change; chore has the new status.
\* ChoreDispatcher has no cleanup_planner_pane either.
on_chore_state_change(t, chore, old_status, new_status, spawn) ==
    With(CreateForStatus(t, chore, old_status, new_status, spawn), LAMBDA created :
        IF created.caught # "none" THEN created
        ELSE IF old_status = "plan" /\ new_status # "plan"
        THEN Caught(created.t, "AttributeError: cleanup_planner_pane")
        ELSE With(IF old_status \in ReviewStatuses /\ new_status \notin ReviewStatuses
                  THEN cleanup_reviewer_pane(created.t, chore).t
                  ELSE created.t,
                  LAMBDA cleaned :
                 IF old_status # new_status
                 THEN Caught(rename_chore_window(update_chore_context(cleaned, chore).t,
                                                 chore, << >>).t, "none")
                 ELSE Caught(cleaned, "none")))

\* DispatcherHooks.on_chore_created
on_chore_created(t, chore, spawn) ==
    IF chore.status = "design"
    THEN Caught(create_worker_window(t, chore, spawn).t, "none")
    ELSE Caught(t, "none")

\* DispatcherHooks.on_chore_deleted
on_chore_deleted(t, chore_id) == Caught(cleanup_worker_window(t, chore_id).t, "none")

\* ------------------------------- TMUXWindowManager.create_chore_window

\* Every tmux command of attach_or_create_session answers in time.
OkAnswers == [ c \in { "check", "detect", "check_current", "create", "recheck",
                       "detect_again" } |-> "ok" ]

\* f"chore_{chore_id}"
ChoreWindowOf(chore_id) == << "c", "h", "o", "r", "e", "_" >> \o Str(chore_id)

\* TMUXWindowManager._validate_window_created
validate_window_created(t, chore_id, session_name) ==
    With(TmuxListWindows(t, session_name), LAMBDA l :
        IF Rc(l) # 0 THEN Returns(l, FALSE)
        ELSE Returns(l, InList(ChoreWindowOf(chore_id), Out(l))))

\* chore_name[:30] + "..." if len(chore_name) > 30 else chore_name
WindowTitle(chore_name) ==
    IF Len(chore_name) > 30
    THEN SubSeq(chore_name, 1, 30) \o << ".", ".", "." >>
    ELSE chore_name

\* The server after attach_or_create_session: a session it created has its
\* first window, and its new-session commands are in the log.
AfterSessionInfo(t, session_info) ==
    [ w |-> [ s \in session_info.sessions |->
                IF s \in DOMAIN t.w THEN t.w[s] ELSE << ShellWindow >> ],
      log |-> t.log \o [ i \in 1..Len(session_info.sent) |->
                           [ cmd |-> "new-session",
                             target |-> << session_info.sent[i][4] >>,
                             rc |-> 0, out |-> << >> ] ] ]

\* What create_chore_window leaves behind: the server, the value it returns
\* and the exception that leaves it.
Leaves(t, ret, raised) == [ t |-> t, ret |-> ret, raised |-> raised ]

\* TMUXWindowManager.create_chore_window of a manager for session_name, in
\* a process whose terminal is in session amb.  A target session of None
\* makes subprocess.run raise TypeError, which the method does not catch.
create_chore_window(t, amb, session_name, chore_id, chore_name, session_id) ==
    With(AttachOrCreateSession(DOMAIN t.w, amb, session_name, session_id, OkAnswers),
         LAMBDA session_info :
        IF ~session_info.result.success
        THEN Leaves(AfterSessionInfo(t, session_info), FALSE, "none")
        ELSE IF session_info.result.session_name = NoSession
        THEN Leaves(AfterSessionInfo(t, session_info), None, "TypeError")
        ELSE With(TmuxNewWindow(AfterSessionInfo(t, session_info),
                                session_info.result.session_name,
                                ChoreWindowOf(chore_id), "runs"),
                  LAMBDA n :
                 IF Rc(n) # 0 THEN Leaves(n, FALSE, "none")
                 ELSE With(TmuxRenameWindow(n, session_info.result.session_name,
                                            ChoreWindowOf(chore_id),
                                            WindowTitle(chore_name)),
                           LAMBDA r :
                          IF Rc(r) # 0 THEN Leaves(r, FALSE, "none")
                          ELSE With(validate_window_created(
                                        r, chore_id, session_info.result.session_name),
                                    LAMBDA v : Leaves(v.t, v.ret, "none")))))

\* ------------------------------------------- the windows of the chores

\* Number of direct calls of the dispatcher and of windows somebody closes
\* in one run; the hooks are bounded by the statuses of the chores.
MaxWindowOps == 2

\* The ids and names of the chores of a run, in the order of their creation.
WindowChoreIds == << 7 >>
WindowChoreNames == { << "F", "i", "x", " ", "b", "u", "g" >> }

\* The chore names create_chore_window is called with.
ChoreWindowNames == WindowChoreNames \cup { ChoreWindowOf(WindowChoreIds[1]) }

\* A process with a ChoreDispatcher, its DispatcherHooks and a
\* TMUXWindowManager, in a terminal outside tmux or in the session w0; the
\* dispatcher session is there or not; no chore yet.
InitWindows ==
    /\ ambient \in { NoSession, TermSession }
    /\ \E disp \in SUBSET { DispatcherSession } :
         windows = [ s \in disp \cup ({ ambient } \ { NoSession }) |-> << ShellWindow >> ]
    /\ sessions = DOMAIN windows
    /\ commands = << >>
    /\ obj = << >>
    /\ chores = {}
    /\ nextId = 1
    /\ ops = 0
    /\ lastOp = [ op |-> "init" ]
    /\ active = << >>
    /\ archive = << >>
    /\ hook = "ok"
    /\ advances = << >>
    /\ SnowflakeUnused

WindowsFrame ==
    UNCHANGED << active, archive, hook, advances, snowVars, ambient, commands >>

\* The kiro-cli command matters to the calls that start one.
SpawnMatters(t, spawn) ==
    spawn = "runs" \/ \E i \in 1..Len(t.log) :
                        t.log[i].cmd \in { "new-window", "split-window" } /\ t.log[i].rc = 0

\* The server after an operation.
Serve(t) ==
    /\ windows' = t.w
    /\ sessions' = DOMAIN t.w

\* Chore(name) and on_chore_created(chore)
ChoreCreated ==
    /\ nextId <= Len(WindowChoreIds)
    /\ \E name \in WindowChoreNames, spawn \in Spawns :
         LET chore == NewChore(WindowChoreIds[nextId], name, "d1", NoId)
         IN  \E r \in { on_chore_created(Server(windows), chore, spawn) } :
             /\ SpawnMatters(r.t, spawn)
             /\ obj' = (chore.id :> chore) @@ obj
             /\ chores' = chores \cup { chore.id }
             /\ Serve(r.t)
             /\ lastOp' = [ op |-> "on_chore_created", id |-> chore.id, spawn |-> spawn,
                            caught |-> r.caught, log |-> r.t.log ]
    /\ nextId' = nextId + 1
    /\ UNCHANGED ops
    /\ WindowsFrame

\* The chore takes its next status and on_chore_state_change(chore, old, new)
\* is delivered.
StateChange ==
    /\ \E id \in chores, spawn \in Spawns :
         /\ obj[id].status # WORK_DONE
         /\ LET old_status == obj[id].status
                new_status == ChoreStatus[StatusIndex(old_status) + 1]
                chore == [ obj[id] EXCEPT !.status = new_status ]
            IN  \E r \in { on_chore_state_change(Server(windows), chore, old_status,
                                                 new_status, spawn) } :
                /\ SpawnMatters(r.t, spawn)
                /\ obj' = [ obj EXCEPT ![id] = chore ]
                /\ Serve(r.t)
                /\ lastOp' = [ op |-> "on_chore_state_change", id |-> id,
                               old_status |-> old_status, new_status |-> new_status,
                               spawn |-> spawn, caught |-> r.caught, log |-> r.t.log ]
    /\ UNCHANGED << chores, nextId, ops >>
    /\ WindowsFrame

\* The chore is deleted and on_chore_deleted(chore_id) is delivered.
ChoreDeleted ==
    /\ \E id \in chores :
         \E r \in { on_chore_deleted(Server(windows), id) } :
             /\ obj' = [ i \in DOMAIN obj \ { id } |-> obj[i] ]
             /\ chores' = chores \ { id }
             /\ Serve(r.t)
             /\ lastOp' = [ op |-> "on_chore_deleted", id |-> id,
                            caught |-> r.caught, log |-> r.t.log ]
    /\ UNCHANGED << nextId, ops >>
    /\ WindowsFrame

\* dispatcher.create_worker_window(chore)
CreateWorkerWindow ==
    /\ ops < MaxWindowOps
    /\ \E id \in chores, spawn \in Spawns :
         \E r \in { create_worker_window(Server(windows), obj[id], spawn) } :
             /\ SpawnMatters(r.t, spawn)
             /\ Serve(r.t)
             /\ lastOp' = [ op |-> "create_worker_window", id |-> id, spawn |-> spawn,
                            ret |-> r.ret, raised |-> "none", log |-> r.t.log ]
    /\ ops' = ops + 1
    /\ UNCHANGED << obj, chores, nextId >>
    /\ WindowsFrame

\* manager.create_chore_window(chore_id, chore_name, session_id) of
\* TMUXWindowManager()
CreateChoreWindow ==
    /\ ops < MaxWindowOps
    /\ \E id \in chores, chore_name \in ChoreWindowNames,
          session_id \in { NoSession, DevSession } :
         \E r \in { create_chore_window(Server(windows), ambient, DefaultSession, id,
                                        chore_name, session_id) } :
             /\ Serve(r.t)
             /\ lastOp' = [ op |-> "create_chore_window", id |-> id,
                            chore_name |-> chore_name, session_id |-> session_id,
                            ret |-> r.ret, raised |-> r.raised, log |-> r.t.log ]
    /\ ops' = ops + 1
    /\ UNCHANGED << obj, chores, nextId >>
    /\ WindowsFrame

\* dispatcher.cleanup_worker_window(chore_id), for a chore or for an id
\* that is gone
CleanupWorkerWindow ==
    /\ ops < MaxWindowOps
    /\ \E i \in 1..(nextId - 1) :
         LET id == WindowChoreIds[i]
         IN  \E r \in { cleanup_worker_window(Server(windows), id) } :
             /\ Serve(r.t)
             /\ lastOp' = [ op |-> "cleanup_worker_window", id |-> id,
                            ret |-> r.ret, raised |-> "none", log |-> r.t.log ]
    /\ ops' = ops + 1
    /\ UNCHANGED << obj, chores, nextId >>
    /\ WindowsFrame

\* dispatcher.cleanup_reviewer_pane(chore)
CleanupReviewerPane ==
    /\ ops < MaxWindowOps
    /\ \E id \in chores :
         \E r \in { cleanup_reviewer_pane(Server(windows), obj[id]) } :
             /\ Serve(r.t)
             /\ lastOp' = [ op |-> "cleanup_reviewer_pane", id |-> id,
                            ret |-> r.ret, raised |-> "none", log |-> r.t.log ]
    /\ ops' = ops + 1
    /\ UNCHANGED << obj, chores, nextId >>
    /\ WindowsFrame

\* Somebody closes a window of a chore in the dispatcher session.
WindowCloses ==
    /\ ops < MaxWindowOps
    /\ DispatcherSession \in DOMAIN windows
    /\ \E i \in 1..Len(windows[DispatcherSession]) :
         /\ StartsWith(windows[DispatcherSession][i].name, ChorePrefix)
         /\ windows' = [ windows EXCEPT ![DispatcherSession] = RemoveAt(@, i) ]
    /\ lastOp' = [ op |-> "window closed" ]
    /\ ops' = ops + 1
    /\ UNCHANGED << obj, chores, nextId, sessions >>
    /\ WindowsFrame

NextWindows ==
    \/ ChoreCreated
    \/ StateChange
    \/ ChoreDeleted
    \/ CreateWorkerWindow
    \/ CreateChoreWindow
    \/ CleanupWorkerWindow
    \/ CleanupReviewerPane
    \/ WindowCloses

SpecWindows == InitWindows /\ [][NextWindows]_vars

\* ------------------------------------------------- claims on the windows

\* C21: create_worker_window and create_chore_window return True only after
\* the windows of the session were listed again, after the window was
\* created, and the window of the chore was in the list; an exit code of 0
\* of new-window alone never gives True.
C21_SuccessOnlyAfterRequery ==
    ( /\ lastOp.op \in { "create_worker_window", "create_chore_window" }
      /\ lastOp.raised = "none"
      /\ lastOp.ret = TRUE )
    => \E i, j \in 1..Len(lastOp.log) :
         /\ i < j
         /\ lastOp.log[i].cmd = "new-window"
         /\ lastOp.log[i].rc = 0
         /\ lastOp.log[j].cmd = "list-windows"
         /\ lastOp.log[j].rc = 0
         /\ InList(lastOp.log[i].target[2], lastOp.log[j].out)

\* The windows of a chore in the dispatcher session: those whose names start
\* with chore-<id>-, by index.
ChoreWindows(w, chore_id) ==
    IF DispatcherSession \notin DOMAIN w THEN {}
    ELSE { i \in 1..Len(w[DispatcherSession]) :
             StartsWith(w[DispatcherSession][i].name, ChoreWindowPrefix(chore_id)) }

\* A window of the chore has a reviewer pane, a pane of index 1.
HasReviewerPane(w, chore_id) ==
    \E i \in ChoreWindows(w, chore_id) : w[DispatcherSession][i].panes >= 2

\* C22: cleanup_worker_window(id) and cleanup_reviewer_pane(chore) return
\* True when the window or the pane is already gone, and whenever they
\* return True the window or the pane is not there afterwards.
C22_CleanupSucceedsWhenAbsent ==
    [][ /\ lastOp'.op = "cleanup_worker_window"
           => /\ ChoreWindows(windows, lastOp'.id) = {} => lastOp'.ret
              /\ lastOp'.ret => ChoreWindows(windows', lastOp'.id) = {}
        /\ lastOp'.op = "cleanup_reviewer_pane"
           => /\ ~HasReviewerPane(windows, lastOp'.id) => lastOp'.ret
              /\ lastOp'.ret => ~HasReviewerPane(windows', lastOp'.id) ]_vars

\* C23: after on_chore_state_change for a change to another status than
\* work_done, of a chore that has a window, the chore has a window and the
\* name of every window of the chore is chore-<id>-<slug>-<new status>.
C23_WindowNamedAfterPhase ==
    [][ ( /\ lastOp'.op = "on_chore_state_change"
          /\ lastOp'.new_status # WORK_DONE
          /\ ChoreWindows(windows, lastOp'.id) # {} )
        => /\ ChoreWindows(windows', lastOp'.id) # {}
           /\ \A i \in ChoreWindows(windows', lastOp'.id) :
                windows'[DispatcherSession][i].name
                    = GetWindowNameWithStatus(obj'[lastOp'.id]) ]_vars

\* C24: after on_chore_state_change for a change from a review status to a
\* status that is none, no window of the chore has a reviewer pane, and
\* unless the new status is work_done the chore has as many windows, each
\* with its worker pane, as before.
C24_ReviewerPaneRemoved ==
    [][ ( /\ lastOp'.op = "on_chore_state_change"
          /\ lastOp'.old_status \in ReviewStatuses
          /\ lastOp'.new_status \notin ReviewStatuses )
        => /\ ~HasReviewerPane(windows', lastOp'.id)
           /\ lastOp'.new_status # WORK_DONE
              => Cardinality(ChoreWindows(windows', lastOp'.id))
                     >= Cardinality(ChoreWindows(windows, lastOp'.id)) ]_vars

\* C25: after on_chore_state_change for a change to work_done no window
\* whose name starts with chore-<id>- is left in the dispatcher session.
C25_NoWindowAfterWorkDone ==
    [][ ( /\ lastOp'.op = "on_chore_state_change"
          /\ lastOp'.new_status = WORK_DONE )
        => ChoreWindows(windows', lastOp'.id) = {} ]_vars

\* ------------------------------------------------------------ chains of chores

\* Two Chore objects made outside a repository, as test_chore_chaining makes
\* them: Chore("First") and Chore("Second"), both in design, not linked.
ChainNames == << "First", "Second" >>

InitChain ==
    /\ obj = [ id \in 1..Len(ChainNames) |-> NewChore(id, ChainNames[id], "", NoId) ]
    /\ chores = {}
    /\ active = << >>
    /\ archive = << >>
    /\ nextId = Len(ChainNames) + 1
    /\ hook = "ok"
    /\ ops = 0
    /\ advances = << >>
    /\ SnowflakeUnused
    /\ TmuxUnused
    /\ lastOp = [ op |-> "init", id |-> NoId, ret |-> NoId ]

ChainFrame ==
    UNCHANGED << chores, active, archive, nextId, hook, ops, advances, snowVars, tmuxVars >>

\* chore.set_next_chore(other)
ChainSetNextChore ==
    /\ \E id \in DOMAIN obj, other \in DOMAIN obj :
         /\ obj' = [ obj EXCEPT ![id].next_chore = other ]
         /\ lastOp' = [ op |-> "set_next_chore", id |-> id, ret |-> NoId ]
    /\ ChainFrame

\* chore.advance_status()
ChainAdvanceStatus ==
    /\ \E id \in DOMAIN obj :
         /\ obj' = [ obj EXCEPT ![id] = advance_status(obj, obj[id]).o ]
         /\ lastOp' = [ op |-> "advance_status", id |-> id, ret |-> NoId ]
    /\ ChainFrame

\* chore.get_next_chore()
ChainGetNextChore ==
    /\ \E id \in DOMAIN obj :
         lastOp' = [ op |-> "get_next_chore", id |-> id, ret |-> get_next_chore(obj[id]) ]
    /\ UNCHANGED obj
    /\ ChainFrame

NextChain ==
    \/ ChainSetNextChore
    \/ ChainAdvanceStatus
    \/ ChainGetNextChore

SpecChain == InitChain /\ [][NextChain]_vars

\* C26: get_next_chore() returns the chore set with set_next_chore exactly
\* when the chore it is called on is in work_done; in every other status it
\* returns None, also when a next chore has been set; the call changes
\* neither chore.
C26_NextChoreOnlyWhenComplete ==
    [][ lastOp'.op = "get_next_chore"
        => LET o == obj[lastOp'.id]
           IN  /\ o.status = WORK_DONE => lastOp'.ret = o.next_chore
               /\ o.status # WORK_DONE => lastOp'.ret = NoId
               /\ obj' = obj ]_vars

\* chore 1, linked to chore 2 and complete, has answered chore 2
C26_Witness ==
    /\ lastOp.op = "get_next_chore"
    /\ lastOp.id = 1
    /\ obj[1].status = WORK_DONE
    /\ obj[1].next_chore = 2
    /\ lastOp.ret = 2

\* chore 1, linked to chore 2 and not complete, has answered None
C26_WitnessNotComplete ==
    /\ lastOp.op = "get_next_chore"
    /\ obj[lastOp.id].status \notin { WORK_DONE }
    /\ obj[lastOp.id].next_chore # NoId
    /\ lastOp.ret = NoId

\* ------------------------------------------------------------ threads that create

\* Number of repo.create calls of each thread of test_concurrent_access.
MaxCreates == 2

\* A thread of test_concurrent_access: where it is in repo.create, how many
\* of its calls have returned, the chore it is creating, and its pass over
\* self._chores in save_active_chores: the size dict.values() started with,
\* how many values it has yielded, and the records in the buffer of its file
\* object.
IdleCreator ==
    [ pc |-> "idle", returned |-> 0, id |-> NoId, size |-> 0, pos |-> 0,
      buffer |-> << >>, exc |-> "none" ]

\* An empty repository on an empty file, and the threads not started.  In
\* these runs chores is the sequence of the keys of _chores in the order of
\* their insertion, which is the order a dict is iterated in, and issued
\* the ids the Chore objects got.
InitConcurrent ==
    /\ obj = << >>
    /\ chores = << >>
    /\ active = << >>
    /\ archive = << >>
    /\ nextId = 1
    /\ hook = "ok"
    /\ ops = 0
    /\ advances = << >>
    /\ clock = 0
    /\ generator = << >>
    /\ callers = [ t \in Threads |-> IdleCreator ]
    /\ issued = << >>
    /\ TmuxUnused
    /\ lastOp = [ op |-> "init", thread |-> 0, id |-> NoId, exc |-> "none" ]

ConcurrentFrame == UNCHANGED << archive, hook, ops, advances, clock, generator, tmuxVars >>

\* f"Thread {thread_id} chore {i}"
CreatorChoreName(t, i) == << "Thread", t, "chore", i >>

\* chore = Chore(name, description): next_id gives every object its own id.
CreatorMakesChore(t) ==
    /\ callers[t].pc = "idle"
    /\ callers[t].returned < MaxCreates
    /\ obj' = (nextId :> NewChore(nextId, CreatorChoreName(t, callers[t].returned),
                                  "Description", NoId)) @@ obj
    /\ issued' = Append(issued, nextId)
    /\ nextId' = nextId + 1
    /\ callers' = [ callers EXCEPT ![t].pc = "made", ![t].id = nextId ]
    /\ UNCHANGED << chores, active, lastOp >>
    /\ ConcurrentFrame

\* self._chores[chore.id] = chore
CreatorInserts(t) ==
    /\ callers[t].pc = "made"
    /\ chores' = Append(chores, callers[t].id)
    /\ callers' = [ callers EXCEPT ![t].pc = "inserted" ]
    /\ UNCHANGED << obj, active, nextId, issued, lastOp >>
    /\ ConcurrentFrame

\* with open(self.active_file, 'w') as f: the file is truncated, the file
\* object of this thread starts at offset 0 with an empty buffer.
CreatorOpensFile(t) ==
    /\ callers[t].pc = "inserted"
    /\ active' = << >>
    /\ callers' = [ callers EXCEPT ![t].pc = "opened", ![t].buffer = << >> ]
    /\ UNCHANGED << obj, chores, nextId, issued, lastOp >>
    /\ ConcurrentFrame

\* for chore in active_chores.values(): the iterator notes the size of the dict
CreatorStartsPass(t) ==
    /\ callers[t].pc = "opened"
    /\ callers' = [ callers EXCEPT ![t].pc = "iterating", ![t].size = Len(chores),
                                   ![t].pos = 0 ]
    /\ UNCHANGED << obj, chores, active, nextId, issued, lastOp >>
    /\ ConcurrentFrame

\* One step of the loop.  The iterator raises RuntimeError('dictionary
\* changed size during iteration') when the dict no longer has the size it
\* started with, on every call, the one that would end the loop included;
\* otherwise the next chore is written to the buffer, or the loop ends.
CreatorNextRecord(t) ==
    /\ callers[t].pc = "iterating"
    /\ callers' =
         IF Len(chores) # callers[t].size
         THEN [ callers EXCEPT ![t].pc = "closing", ![t].exc = "RuntimeError" ]
         ELSE IF callers[t].pos < callers[t].size
         THEN [ callers EXCEPT
                  ![t].pos = @ + 1,
                  ![t].buffer = Append(@, ChoreToDict(obj[chores[callers[t].pos + 1]])) ]
         ELSE [ callers EXCEPT ![t].pc = "closing" ]
    /\ UNCHANGED << obj, chores, active, nextId, issued, lastOp >>
    /\ ConcurrentFrame

\* The with block ends, with or without an exception: the buffer is written
\* at offset 0 of the file, over what is there, and the file is closed.  The
\* records of the test have one length, so a record covers a record.  An
\* exception leaves create and ends the thread, whose remaining calls are
\* not made.
CreatorClosesFile(t) ==
    /\ callers[t].pc = "closing"
    /\ active' = callers[t].buffer
                   \o SubSeq(active, Len(callers[t].buffer) + 1, Len(active))
    /\ IF callers[t].exc # "none"
       THEN /\ callers' = [ callers EXCEPT ![t].pc = "ended" ]
            /\ lastOp' = [ op |-> "create", thread |-> t, id |-> callers[t].id,
                           exc |-> callers[t].exc ]
       ELSE /\ callers' = [ callers EXCEPT ![t].pc = "saved" ]
            /\ UNCHANGED lastOp
    /\ UNCHANGED << obj, chores, nextId, issued >>
    /\ ConcurrentFrame

\* get_dispatcher_hooks().on_chore_created(chore) in its try/except, and
\* return chore
CreatorReturns(t) ==
    /\ callers[t].pc = "saved"
    /\ callers' = [ callers EXCEPT ![t].pc = "idle", ![t].returned = @ + 1 ]
    /\ lastOp' = [ op |-> "create", thread |-> t, id |-> callers[t].id, exc |-> "none" ]
    /\ UNCHANGED << obj, chores, active, nextId, issued >>
    /\ ConcurrentFrame

NextConcurrent ==
    \E t \in Threads :
        \/ CreatorMakesChore(t)
        \/ CreatorInserts(t)
        \/ CreatorOpensFile(t)
        \/ CreatorStartsPass(t)
        \/ CreatorNextRecord(t)
        \/ CreatorClosesFile(t)
        \/ CreatorReturns(t)

SpecConcurrent == InitConcurrent /\ [][NextConcurrent]_vars

\* thread.join() has returned for every thread
AllJoined ==
    \A t \in Threads :
        \/ callers[t].pc = "ended"
        \/ callers[t].pc = "idle" /\ callers[t].returned = MaxCreates

\* C27: when several threads call create on one repository, no call ends
\* with an exception, and when all threads have finished list_all() holds
\* one chore for each of the MaxThreads * MaxCreates calls, all with
\* different ids.
C27_ConcurrentCreatesAllSucceed ==
    /\ \A t \in Threads : callers[t].exc = "none"
    /\ AllJoined
         => /\ Len(chores) = MaxThreads * MaxCreates
            /\ \A i, j \in 1..Len(chores) : i # j => chores[i] # chores[j]

\* ------------------------------------------------------------ archiving a chore

\* Number of archive_completed_chore calls of one run.
MaxArchives == 2

\* Chores 1 and 2 are in the repository and on the active file, chore 3 is
\* an object outside it; each is in some status.  The completed file is
\* empty or holds the record of an earlier chore.
InitArchive ==
    /\ \E s \in [ 1..3 -> Statuses ] :
         obj = [ id \in 1..3 |-> [ NewChore(id, "n1", "d1", NoId) EXCEPT !.status = s[id] ] ]
    /\ chores = { 1, 2 }
    /\ active = [ i \in 1..2 |-> ChoreToDict(obj[i]) ]
    /\ archive \in { << >>, << StoredRecord(4, WORK_DONE, NoId) >> }
    /\ nextId = 5
    /\ hook = "ok"
    /\ ops = 0
    /\ advances = << >>
    /\ SnowflakeUnused
    /\ TmuxUnused
    /\ lastOp = [ op |-> "init", id |-> NoId, exc |-> "none" ]

\* archival_manager.archive_completed_chore(chore)
ArchiveChore ==
    /\ ops < MaxArchives
    /\ \E id \in DOMAIN obj :
         \E r \in { ArchiveCompletedChore(World, id) } :
            /\ obj' = r.w.obj
            /\ chores' = r.w.chores
            /\ active' = r.w.active
            /\ archive' = r.w.archive
            /\ lastOp' = [ op |-> "archive_completed_chore", id |-> id, exc |-> r.exc ]
    /\ ops' = ops + 1
    /\ UNCHANGED << nextId, hook, advances, snowVars, tmuxVars >>

NextArchive == ArchiveChore

SpecArchive == InitArchive /\ [][NextArchive]_vars

\* C28: archive_completed_chore(chore) raises ValidationError and leaves the
\* completed file as it is when the chore is not in work_done; when it is in
\* work_done the call appends one record, that of the chore, to the
\* completed file; in both cases the active file, the chores of the
\* repository and the chore objects stay as they are.
C28_ArchiveOnlyWorkDone ==
    [][ lastOp'.op = "archive_completed_chore"
        => LET o == obj[lastOp'.id]
           IN  /\ o.status # WORK_DONE
                    => /\ lastOp'.exc = "ValidationError"
                       /\ archive' = archive
               /\ o.status = WORK_DONE
                    => /\ lastOp'.exc = "none"
                       /\ Len(archive') = Len(archive) + 1
                       /\ SubSeq(archive', 1, Len(archive)) = archive
                       /\ archive'[Len(archive')] = ChoreToDict(o)
               /\ active' = active
               /\ chores' = chores
               /\ obj' = obj ]_vars

\* the last call of a run has archived a chore in work_done
C28_Witness ==
    /\ lastOp.op = "archive_completed_chore"
    /\ lastOp.exc = "none"
    /\ obj[lastOp.id].status = WORK_DONE
    /\ Len(archive) >= 1
    /\ archive[Len(archive)].id = lastOp.id
    /\ ops = MaxArchives

\* a chore not in work_done has been refused
C28_WitnessRefused ==
    /\ lastOp.op = "archive_completed_chore"
    /\ lastOp.exc = "ValidationError"
    /\ obj[lastOp.id].status # WORK_DONE

\* ------------------------------------------------------------ validating the stores

\* The statuses of the records of the files that are validated: the scan
\* tells 'work_done' from everything else.
ValidatedStatuses == { "plan_review", WORK_DONE }

\* The files of MaxStored lines at most, each line the record of one of the
\* ids in one of the statuses: an id can have several lines, and any record
\* can be in either file.
StoreFiles ==
    UNION { [ 1..n -> { StoredRecord(id, s, NoId) : id \in StoredIds, s \in ValidatedStatuses } ] :
              n \in 0..MaxStored }

\* An IntegrityValidator on an active file and a completed file.
InitValidate ==
    /\ active \in StoreFiles
    /\ archive \in StoreFiles
    /\ obj = << >>
    /\ chores = {}
    /\ nextId = MaxStored + 1
    /\ hook = "ok"
    /\ ops = 0
    /\ advances = << >>
    /\ SnowflakeUnused
    /\ TmuxUnused
    /\ lastOp = [ op |-> "init" ]

\* integrity_validator.validate_chore_locations()
Validate ==
    /\ \E r \in { ValidateChoreLocations(active, archive) } :
         lastOp' = [ op |-> "validate_chore_locations", ret |-> r ]
    /\ UNCHANGED << obj, chores, active, archive, nextId, hook, ops, advances,
                    snowVars, tmuxVars >>

NextValidate == Validate

SpecValidate == InitValidate /\ [][NextValidate]_vars

\* the ids with a line in the file
IdsOfLines(file) == { id \in StoredIds : \E i \in 1..Len(file) : file[i].id = id }

\* C29: validate_chore_locations answers valid = True exactly when no id has
\* a line in both files, no line of the active file is in work_done and
\* every line of the completed file is in work_done; active_count,
\* completed_count and dual_location_count are the numbers of different ids
\* in the active file, in the completed file and in both; the call changes
\* neither file.
C29_ValidExactlyWhenStoresConsistent ==
    [][ lastOp'.op = "validate_chore_locations"
        => LET ret == lastOp'.ret
               both == IdsOfLines(active) \cap IdsOfLines(archive)
           IN  /\ ret.valid
                    <=> /\ both = {}
                        /\ \A i \in 1..Len(active) : active[i].status # WORK_DONE
                        /\ \A i \in 1..Len(archive) : archive[i].status = WORK_DONE
               /\ ret.active_count = Cardinality(IdsOfLines(active))
               /\ ret.completed_count = Cardinality(IdsOfLines(archive))
               /\ ret.dual_location_count = Cardinality(both)
               /\ active' = active
               /\ archive' = archive ]_vars

\* files with two lines for one id and nothing wrong have been found valid
C29_Witness ==
    /\ lastOp.op = "validate_chore_locations"
    /\ lastOp.ret.valid
    /\ Len(active) = 2
    /\ lastOp.ret.active_count = 1
    /\ lastOp.ret.completed_count = 1
    /\ lastOp.ret.dual_location_count = 0

\* a completed file with a line that is not in work_done has been found invalid
C29_WitnessCorruption ==
    /\ lastOp.op = "validate_chore_locations"
    /\ ~lastOp.ret.valid
    /\ lastOp.ret.dual_location_count = 0
    /\ \A i \in 1..Len(active) : active[i].status # WORK_DONE
    /\ \E i \in 1..Len(archive) : archive[i].status # WORK_DONE

\* ------------------------------------------------------------ names of windows, read back

\* The ids and the names of the chores whose window names are read back: a
\* plain name, one with hyphens and capitals, one with nothing a slug
\* keeps, one that ends in the value of a status, and the empty name.
NamedChoreIds == { 7, 42, 105 }

NamedChoreNames ==
    { << "F", "i", "x", " ", "b", "u", "g" >>,
      << "-", "A", "-", "b", " ", "c", "-" >>,
      << "!", "?", "!" >>,
      << "p", "r", "e", " ", "r", "e", "v", "i", "e", "w" >>,
      << >> }

\* One chore in one of the statuses, and its window not yet named.
InitNames ==
    /\ \E id \in NamedChoreIds, name \in NamedChoreNames, status \in Statuses :
         obj = (id :> [ NewChore(id, name, "d1", NoId) EXCEPT !.status = status ])
    /\ chores = {}
    /\ active = << >>
    /\ archive = << >>
    /\ nextId = 1
    /\ hook = "ok"
    /\ ops = 0
    /\ advances = << >>
    /\ SnowflakeUnused
    /\ TmuxUnused
    /\ lastOp = [ op |-> "init" ]

\* self._parse_window_name(self._get_window_name_with_status(chore))
NameAndParse ==
    /\ \E id \in DOMAIN obj :
         \E name \in { GetWindowNameWithStatus(obj[id]) } :
            lastOp' = [ op |-> "_parse_window_name", id |-> id, window_name |-> name,
                        parsed |-> ParseWindowName(name) ]
    /\ UNCHANGED << obj, chores, active, archive, nextId, hook, ops, advances,
                    snowVars, tmuxVars >>

NextNames == NameAndParse

SpecNames == InitNames /\ [][NextNames]_vars

\* C30: _parse_window_name of the name _get_window_name_with_status gives a
\* chore returns the id of the chore and a status that tells the status of
\* the chore: the name the chore would have in any other status is parsed
\* to another status.
C30_NameGivesBackIdAndStatus ==
    lastOp.op = "_parse_window_name"
    => /\ "id" \in DOMAIN lastOp.parsed
       /\ lastOp.parsed.id = lastOp.id
       /\ \A other \in Statuses \ { obj[lastOp.id].status } :
            LET parsed == ParseWindowName(
                              GetWindowNameWithStatus([ obj[lastOp.id] EXCEPT !.status = other ]))
            IN  "id" \in DOMAIN parsed => parsed.status # lastOp.parsed.status

\* ------------------------------------------------------------ the repository and its repair

\* A repository constructed on a store file, as in Init, next to a completed
\* file that is empty or holds the record of a chore completed earlier.
InitStores ==
    /\ \E file \in InitialFiles :
         /\ active = file
         /\ obj = LoadFromFile(file).obj
         /\ chores = LoadFromFile(file).chores
         /\ nextId = Len(file) + 1
    /\ archive \in { << >>, << StoredRecord(MaxChores + 2, WORK_DONE, NoId) >> }
    /\ hook = "ok"
    /\ ops = 0
    /\ lastOp = [ op |-> "init", id |-> NoId, id2 |-> NoId, args |-> NoArgs,
                  prev_op |-> "init", old_status |-> None, old_stored |-> None,
                  could_advance |-> TRUE,
                  known |-> FALSE, ret |-> None, raised |-> "none",
                  events |-> << >>, lm |-> "not_called", caught |-> "none" ]
    /\ advances = << >>
    /\ SnowflakeUnused
    /\ TmuxUnused

\* The operations of the repository and of its lifecycle manager, cleanup
\* and repair included.
NextStores ==
    \/ Next
    \/ NextCleanup

SpecStores == InitStores /\ [][NextStores]_vars

\* C31: no operation of the repository, of the lifecycle manager or of the
\* archival manager (create, update, delete, transition, cleanup, repair)
\* removes or rewrites a record of the completed file: what the file held
\* before an operation is the beginning of what it holds after it.
C31_ArchiveOnlyGrows ==
    [][ /\ Len(archive) <= Len(archive')
        /\ SubSeq(archive', 1, Len(archive)) = archive ]_vars

\* an operation has appended a record to a completed file that held one
C31_Witness ==
    /\ lastOp.op \in { "update", "transition_chore_state" }
    /\ Len(archive) = 2
    /\ archive[1].id = MaxChores + 2
    /\ archive[2].id = lastOp.id

\* a cleanup or a repair has run on a completed file that held a record
C31_WitnessRepair ==
    /\ lastOp.op \in { "cleanup_system", "repair_system" }
    /\ Len(archive) >= 1

\* ------------------------------------------------------------ the transaction

\* lifecycle_manager.transition_chore_state(chore, new_status, repo._chores)
\* on a repository constructed on an active file, next to a completed file,
\* once in a run; the files can hold what earlier runs left wrong.
TransitionStored ==
    /\ lastOp.op # "transition_chore_state"
    /\ \E id \in chores, status \in Statuses :
         \E t \in { TransitionChoreState(World, id, status, None, None) } :
            /\ obj' = t.w.obj
            /\ chores' = t.w.chores
            /\ active' = t.w.active
            /\ archive' = t.w.archive
            /\ lastOp' = [ op |-> "transition_chore_state", id |-> id,
                           old_status |-> obj[id].status, new_status |-> status,
                           ret |-> t.ret, raised |-> t.exc, message |-> t.message ]
    /\ UNCHANGED << nextId, hook, ops, advances, snowVars, tmuxVars >>

NextTransaction == TransitionStored

SpecTransaction == InitCleanup /\ [][NextTransaction]_vars

\* C32: transition_chore_state returns True only when validate_chore_locations
\* finds the two files valid after what the call wrote; when the files are
\* not valid after its writes the call raises ValidationError, with the
\* issues found in its message.  A change the table does not allow raises
\* TransitionError before anything is written.
C32_SuccessOnlyWhenStoresValid ==
    [][ lastOp'.op = "transition_chore_state"
        => LET validation == ValidateChoreLocations(active', archive')
           IN  /\ lastOp'.ret = "True" => validation.valid
               /\ lastOp'.raised = "TransitionError"
                    => /\ ~validate_transition(lastOp'.old_status, lastOp'.new_status)
                       /\ active' = active
                       /\ archive' = archive
               /\ (validate_transition(lastOp'.old_status, lastOp'.new_status)
                     /\ ~validation.valid)
                    => /\ lastOp'.raised = "ValidationError"
                       /\ lastOp'.message = validation.issues
                       /\ lastOp'.message # {} ]_vars

\* a change the table allows was written and then refused for the state of the files
C32_Witness ==
    /\ lastOp.op = "transition_chore_state"
    /\ lastOp.raised = "ValidationError"
    /\ lastOp.message # {}
    /\ obj[lastOp.id].status = lastOp.new_status
    /\ StoredStatus(active, lastOp.id) = lastOp.new_status

\* a change the table allows has returned True on valid files
C32_WitnessSuccess ==
    /\ lastOp.op = "transition_chore_state"
    /\ lastOp.ret = "True"
    /\ ValidateChoreLocations(active, archive).valid

\* ------------------------------------------------------------ the wait for the next millisecond

\* The generator with a clock that is never set back.
NextSnowflakeForward ==
    \/ EnterNextId
    \/ ObserveClock
    \/ WaitNextMs
    \/ Tick

\* The clock goes on, and the loop of _wait_next_ms goes on reading it.
SpecSnowflakeForward ==
    /\ InitSnowflake
    /\ [][NextSnowflakeForward]_vars
    /\ WF_vars(Tick)
    /\ WF_vars(WaitNextMs)

\* a thread is in the loop of _wait_next_ms
Waiting(t) == callers[t].pc = "waiting"

\* C33: a next_id called when the sequence has reached MAX_SEQ in the
\* millisecond the clock reads returns no id for that millisecond: it waits
\* in _wait_next_ms, and leaves it only with a clock value later than the
\* one it read, returning the id of that later value and of sequence 0;
\* when the clock goes on to a later millisecond the call returns.
C33_WaitsForNextMillisecond ==
    /\ [][ \A t \in Threads :
             /\ ( /\ callers[t].pc = "locked"
                  /\ callers'[t].pc # "locked"
                  /\ clock.now = generator.last_ts
                  /\ generator.sequence = MAX_SEQ )
                  => /\ Waiting(t)'
                     /\ issued' = issued
             /\ (Waiting(t) /\ ~Waiting(t)')
                  => /\ callers'[t].pc = "returned"
                     /\ callers'[t].ts > callers[t].ts
                     /\ callers'[t].id = SnowflakeId(callers'[t].ts, 0)
                     /\ generator'.sequence = 0
                     /\ generator'.last_ts = callers'[t].ts
                     /\ issued' = Append(issued, callers'[t].id) ]_vars
    /\ \A t \in Threads :
         (Waiting(t) /\ callers[t].ts < MaxClock) ~> (callers[t].pc = "returned")

\* a call that found the sequence at MAX_SEQ has waited and returned the
\* first id of the next millisecond
C33_Witness ==
    \E t \in Threads :
        /\ callers[t].pc = "returned"
        /\ callers[t].waited
        /\ callers[t].ts = 1
        /\ callers[t].id = SnowflakeId(1, 0)
        /\ generator.sequence = 0

\* ------------------------------------------------------------ the reviewer's decision

\* review_transitions of reviewer_approve_or_reject
review_transitions ==
    [ design_review |-> [ approve |-> "design_ready", reject |-> "design" ],
      plan_review   |-> [ approve |-> "plan_ready",   reject |-> "plan" ],
      work_review   |-> [ approve |-> WORK_DONE,      reject |-> "work" ] ]

\* The texts a reviewer gives.
ReviewerTexts == { "r1", "r2" }

\* chore_mcp_server.reviewer_approve_or_reject: the world after it and the
\* dict it returns, an error or the result.
ReviewerApproveOrReject(w, chore_id, approved, review_info, h) ==
    IF RepoRead(w, chore_id) = NoId
    THEN [ w |-> w, ret |-> "error: Chore not found" ]
    ELSE IF w.obj[chore_id].status \notin DOMAIN review_transitions
    THEN [ w |-> w, ret |-> "error: Cannot review chore" ]
    ELSE With(RepoUpdate(w, chore_id, None, None,
                         review_transitions[w.obj[chore_id].status]
                                           [IF approved THEN "approve" ELSE "reject"],
                         None, review_info, h),
              LAMBDA updated_chore :
                  IF updated_chore.ret = None
                  THEN [ w |-> updated_chore.w, ret |-> "error: Failed to update review decision" ]
                  ELSE [ w |-> updated_chore.w,
                         ret |-> IF approved THEN "approved" ELSE "rejected" ])

\* reviewer_approve_or_reject(chore_id, approved, review_info) on the
\* repository of the server
Review ==
    /\ ops < MaxOps
    /\ \E id \in Ids, approved \in BOOLEAN, review_info \in ReviewerTexts :
         \E r \in { ReviewerApproveOrReject(World, id, approved, review_info, hook) } :
            /\ Commit(r.w)
            /\ lastOp' = [ op |-> "reviewer_approve_or_reject", id |-> id,
                           approved |-> approved, review_info |-> review_info,
                           ret |-> r.ret ]
    /\ UNCHANGED nextId

NextReview == Review

SpecReview == InitStores /\ [][NextReview]_vars

\* the record the active file holds of a chore
StoredRecordOf(file, id) == file[CHOOSE i \in 1..Len(file) : file[i].id = id]

\* C34: reviewer_approve_or_reject(chore_id, approved=False, review_info) on a
\* chore in design_review, plan_review or work_review puts it back in
\* design, plan or work, in memory and in the active file, with the review
\* text; on a chore in another status, or on an id the repository does not
\* hold, it returns an error and changes neither the chores nor the files.
C34_RejectGoesBackToWork ==
    [][ (lastOp'.op = "reviewer_approve_or_reject" /\ ~lastOp'.approved)
        => LET id == lastOp'.id
           IN  IF id \in chores /\ obj[id].status \in ReviewStatuses
               THEN /\ lastOp'.ret = "rejected"
                    /\ id \in chores'
                    /\ obj'[id].status = review_transitions[obj[id].status].reject
                    /\ obj'[id].review_info = lastOp'.review_info
                    /\ id \in FileIds(active')
                    /\ StoredRecordOf(active', id).status = obj'[id].status
                    /\ StoredRecordOf(active', id).review_info = lastOp'.review_info
                    /\ archive' = archive
               ELSE /\ lastOp'.ret \in { "error: Chore not found", "error: Cannot review chore" }
                    /\ obj' = obj
                    /\ chores' = chores
                    /\ active' = active
                    /\ archive' = archive ]_vars

\* a chore in plan_review, rejected, is in plan with the text of the reviewer
C34_Witness ==
    /\ lastOp.op = "reviewer_approve_or_reject"
    /\ ~lastOp.approved
    /\ lastOp.ret = "rejected"
    /\ obj[lastOp.id].status = "plan"
    /\ StoredStatus(active, lastOp.id) = "plan"
    /\ obj[lastOp.id].review_info = "r2"

\* a reject of a chore that is not in review has returned an error
C34_WitnessError ==
    /\ lastOp.op = "reviewer_approve_or_reject"
    /\ ~lastOp.approved
    /\ lastOp.ret = "error: Cannot review chore"

\* ------------------------------------------------------------ memory and the active file

\* The operations of ChoreRepository.
RepositoryOperations ==
    { "create", "create_sub_chore", "update", "delete", "repair_system" }

\* The active file records the ids of the chores in memory, each with the
\* status it has in memory.
ActiveFileMatchesMemory ==
    /\ FileIds(active) = chores
    /\ \A id \in chores : StoredStatus(active, id) = obj[id].status

\* C35: after every operation of the repository (create, create_sub_chore,
\* update, delete, repair_system) has returned, the ids of the active file
\* and the status recorded for each are those of the chores in memory.
C35_ActiveFileMatchesMemory ==
    lastOp.op \in RepositoryOperations => ActiveFileMatchesMemory

\* C35, amended: the same after every operation of the repository that
\* found the chore it was given: create, create_sub_chore on a parent of the
\* repository, update and delete on an id of the repository, repair_system.
C35_ActiveFileMatchesMemoryWhenFound ==
    [][ ( \/ lastOp'.op \in { "create", "repair_system" }
          \/ lastOp'.op = "create_sub_chore" /\ lastOp'.id2 \in chores
          \/ lastOp'.op \in { "update", "delete" } /\ lastOp'.known )
        => ActiveFileMatchesMemory' ]_vars

\* An update that asked for a status after advance_status() had changed the
\* chore in memory only: the file has the status of the chore again.
C35_Witness ==
    /\ lastOp.op = "update"
    /\ lastOp.prev_op = "advance_status"
    /\ lastOp.known
    /\ lastOp.args.status # None
    /\ lastOp.old_stored # lastOp.old_status
    /\ lastOp.id \in chores
    /\ StoredStatus(active, lastOp.id) = obj[lastOp.id].status

\* A repair after advance_status(): memory is loaded again from the file.
C35_WitnessRepair ==
    /\ lastOp.op = "repair_system"
    /\ ops = 2
    /\ chores # {}
    /\ ActiveFileMatchesMemory

\* ------------------------------------------------------------ the completion, step by step

\* Number of transitions to work_done and repairs of one run.
MaxCompletions == 2

\* A _handle_completion that rewrites the active file before it archives.
HandleCompletionOrderSavesFirst ==
    << "remove_from_active", "save_active_chores", "archive_completed_chore" >>

\* The calls of ChoreLifecycleManager._handle_completion, in their order.
HandleCompletionOrder ==
    << "archive_completed_chore", "remove_from_active", "save_active_chores" >>

\* A repository constructed on an active file of chores at the end of their
\* work, next to an empty completed file. lastOp keeps the position of the
\* transition: at (idle, handling, appending, writing, crashed), the chore,
\* the number of calls of _handle_completion that have returned, the records
\* the save is writing and the number already handed to f.write.
InitCompletion ==
    /\ active \in FilesOver(StoredIds, { "work", "work_review" })
    /\ archive = << >>
    /\ obj = LoadFromFile(active).obj
    /\ chores = LoadFromFile(active).chores
    /\ nextId = MaxStored + 1
    /\ hook = "ok"
    /\ ops = 0
    /\ advances = << >>
    /\ SnowflakeUnused
    /\ TmuxUnused
    /\ lastOp = [ at |-> "idle", id |-> NoId, step |-> 0, new |-> << >>, written |-> 0 ]

\* The next call of _handle_completion is the one named.
NextCallIs(name) ==
    /\ lastOp.at = "handling"
    /\ lastOp.step < Len(HandleCompletionOrder)
    /\ HandleCompletionOrder[lastOp.step + 1] = name

\* transition_chore_state(chore, WORK_DONE, repo._chores) up to its call of
\* _handle_completion: execute_transition has assigned the status, or has
\* raised TransitionError and the call is over.
BeginCompletion ==
    /\ lastOp.at = "idle"
    /\ ops < MaxCompletions
    /\ \E id \in chores :
         \E t \in { ExecuteTransition(World, id, WORK_DONE) } :
           /\ obj' = t.w.obj
           /\ lastOp' = [ at |-> IF t.exc = "none" THEN "handling" ELSE "idle",
                          id |-> id, step |-> 0, new |-> << >>, written |-> 0 ]
    /\ ops' = ops + 1
    /\ UNCHANGED << chores, active, archive, nextId, hook, advances, snowVars, tmuxVars >>

\* archive_completed_chore: open(self.completed_file, 'a') and f.write; the
\* line is in the buffer of the file object.
OpenCompleted ==
    /\ NextCallIs("archive_completed_chore")
    /\ ArchiveCompletedChore(World, lastOp.id).exc = "none"
    /\ lastOp' = [ lastOp EXCEPT !.at = "appending" ]
    /\ UNCHANGED << obj, chores, active, archive, nextId, hook, ops, advances, snowVars, tmuxVars >>

\* The with block of archive_completed_chore ends: the line is in the file.
CloseCompleted ==
    /\ lastOp.at = "appending"
    /\ archive' = ArchiveCompletedChore(World, lastOp.id).w.archive
    /\ lastOp' = [ lastOp EXCEPT !.at = "handling", !.step = @ + 1 ]
    /\ UNCHANGED << obj, chores, active, nextId, hook, ops, advances, snowVars, tmuxVars >>

\* remove_from_active(chore.id, active_chores)
RemoveCompleted ==
    /\ NextCallIs("remove_from_active")
    /\ chores' = RemoveFromActive(World, lastOp.id).chores
    /\ lastOp' = [ lastOp EXCEPT !.step = @ + 1 ]
    /\ UNCHANGED << obj, active, archive, nextId, hook, ops, advances, snowVars, tmuxVars >>

\* save_active_chores: open(self.active_file, 'w') truncates the file
OpenActive ==
    /\ NextCallIs("save_active_chores")
    /\ active' = << >>
    /\ lastOp' = [ lastOp EXCEPT !.at = "writing", !.new = NewContent, !.written = 0 ]
    /\ UNCHANGED << obj, chores, archive, nextId, hook, ops, advances, snowVars, tmuxVars >>

\* The with block of save_active_chores ends: the file is flushed and closed.
CloseActive ==
    /\ lastOp.at = "writing"
    /\ lastOp.written = Len(lastOp.new)
    /\ active' = lastOp.new
    /\ lastOp' = [ lastOp EXCEPT !.at = "handling", !.step = @ + 1 ]
    /\ UNCHANGED << obj, chores, archive, nextId, hook, ops, advances, snowVars, tmuxVars >>

\* _handle_completion and transition_chore_state return.
ReturnFromCompletion ==
    /\ lastOp.at = "handling"
    /\ lastOp.step = Len(HandleCompletionOrder)
    /\ lastOp' = [ lastOp EXCEPT !.at = "idle" ]
    /\ UNCHANGED << obj, chores, active, archive, nextId, hook, ops, advances, snowVars, tmuxVars >>

\* The process is killed at any point of the transition: memory and the
\* buffers of the open files are lost, what is in the files stays.
CrashInCompletion ==
    /\ lastOp.at \in { "handling", "appending", "writing" }
    /\ lastOp' = [ lastOp EXCEPT !.at = "crashed" ]
    /\ obj' = << >>
    /\ chores' = {}
    /\ UNCHANGED << active, archive, nextId, hook, ops, advances, snowVars, tmuxVars >>

\* The process starts again: ChoreRepository(storage_file) loads the active
\* file.
RestartAfterCrash ==
    /\ lastOp.at = "crashed"
    /\ obj' = LoadFromFile(active).obj
    /\ chores' = LoadFromFile(active).chores
    /\ lastOp' = [ lastOp EXCEPT !.at = "idle" ]
    /\ UNCHANGED << active, archive, nextId, hook, ops, advances, snowVars, tmuxVars >>

\* repo.repair_system() between two transitions
RepairWhenIdle ==
    /\ lastOp.at = "idle"
    /\ ops < MaxCompletions
    /\ \E c \in { RepairSystem(active, archive) } :
         /\ active' = c.active
         /\ archive' = c.archive
         /\ obj' = LoadFromFile(c.active).obj
         /\ chores' = LoadFromFile(c.active).chores
    /\ ops' = ops + 1
    /\ UNCHANGED << nextId, hook, lastOp, advances, snowVars, tmuxVars >>

NextCompletion ==
    \/ BeginCompletion
    \/ OpenCompleted
    \/ CloseCompleted
    \/ RemoveCompleted
    \/ OpenActive
    \/ WriteRecord
    \/ FlushBuffer
    \/ CloseActive
    \/ ReturnFromCompletion
    \/ CrashInCompletion
    \/ RestartAfterCrash
    \/ RepairWhenIdle

SpecCompletion == InitCompletion /\ [][NextCompletion]_vars

\* C36: from the moment a transition to work_done has begun on a chore, at
\* every step of it and after the process was killed at any step and started
\* again, the id of the chore is in the active file or in the completed file.
C36_CompletingChoreInSomeStore ==
    lastOp.id # NoId => lastOp.id \in FileIds(active) \cup FileIds(archive)

\* The active file is open and truncated, with other chores still to write,
\* and the chore that is completing is in the completed file only.
C36_Witness ==
    /\ lastOp.at = "writing"
    /\ lastOp.new # << >>
    /\ active = << >>
    /\ lastOp.id \in FileIds(archive)

\* The process was killed after the line was handed to the completed file
\* and before that file was closed: the chore is in the active file only.
C36_WitnessCrash ==
    /\ lastOp.at = "crashed"
    /\ lastOp.step = 0
    /\ lastOp.id \in FileIds(active)
    /\ lastOp.id \notin FileIds(archive)

\* C39: in every state reached by transitions to work_done, repairs, and a
\* kill of the process followed by a restart that loads the stores again, no
\* id is in more than one record of the completed file.
C39_NoIdTwiceInArchive ==
    \A i, j \in 1..Len(archive) : i # j => archive[i].id # archive[j].id

\* C37: cleanup_duplicates changes no field of the records that stay in the
\* active file: every record the file holds after the call is, field by
\* field and with its successor id, a record the file held before it.
C37_CleanupKeepsRecords ==
    [][ \A i \in 1..Len(active') : \E j \in 1..Len(active) : active[j] = active'[i] ]_vars

\* ------------------------------------------------------------ the hooks alone

\* The events DispatcherHooks gets of a chore: its creation, then the
\* changes of status in the order of the enum.
NextHooks ==
    \/ ChoreCreated
    \/ StateChange

SpecHooks == InitWindows /\ [][NextHooks]_vars

\* C38: in every state reached by delivering to DispatcherHooks the creation
\* of a chore and then its changes of status in order, the dispatcher
\* session holds at most one window of the chore.
C38_AtMostOneWindowPerChore ==
    \A id \in chores : Cardinality(ChoreWindows(windows, id)) <= 1

\* C40: create_chore_window returns True whenever the session resolved and
\* new-window and rename-window both succeeded: the check after the creation
\* finds the window that was just created.
C40_CreatedWindowIsFound ==
    ( /\ lastOp.op = "create_chore_window"
      /\ lastOp.raised = "none"
      /\ \E i, j \in 1..Len(lastOp.log) :
           /\ i < j
           /\ lastOp.log[i].cmd = "new-window" /\ lastOp.log[i].rc = 0
           /\ lastOp.log[j].cmd = "rename-window" /\ lastOp.log[j].rc = 0 )
    => lastOp.ret = TRUE

====
